---------------------------- MODULE Spec2Model ----------------------------
(***************************************************************************)
(* Model of the Ming Pao crawl-and-archive pipeline                        *)
(* (yellowcandle/mingpao-backup-s3): URL discovery with brute-force        *)
(* fallback (url_generator.py), the per-URL archive unit and the           *)
(* orchestrator with its bounded worker pool and background metadata       *)
(* channel (main.py), the Ledger (database.py) and the remote store        *)
(* client (ia_s3_client.py).                                               *)
(*                                                                         *)
(* Python strings are modelled as sequences of one-character strings, so   *)
(* that concatenation, search, replacement and code-point ordering are     *)
(* computed rather than assumed.                                           *)
(***************************************************************************)
EXTENDS Integers, Sequences, FiniteSets, TLC

VARIABLES
    disc,       \* call frame of get_article_urls / _discover_from_index
    bf_first,   \* history: per date, the first brute-force list returned
    rows0,      \* history: the Ledger at the last sequential call of archive_article
    uploads,    \* Ledger: the rows of table uploads
    mq,         \* metadata_queue: the queued items, oldest first
    unfinished, \* metadata_queue.unfinished_tasks
    ex,         \* call frames of archive_article, one per submitted call
    conf,       \* configuration: verify_upload, max_retries, metadata_queue given
    orch,       \* frame of main(): the Orchestrator
    cons,       \* frame of metadata_worker: the background consumer thread
    meta,       \* call frame of update_file_metadata
    progress,   \* Ledger: the rows of table progress (key last_date)
    up,         \* call frame of upload_file
    vfy,        \* call frame of verify_file_uploaded
    cat,        \* call frame of catchup_metadata
    hist        \* history kept for the claims: tasks accepted and applied

vars ==
    <<disc, bf_first, rows0, uploads, mq, unfinished, ex, conf, orch, cons, meta,
      progress, up, vfy, cat, hist>>

(***************************************************************************)
(* Bounds of the model                                                     *)
(***************************************************************************)
\* number of consecutive calendar dates the model ranges over
NumDays == 2
\* capacity of the metadata queue (METADATA_QUEUE_SIZE of the run)
QueueSize == 1
\* largest max_retries the archive_article harness passes
MaxRetries == 3

(***************************************************************************)
(* Strings                                                                 *)
(***************************************************************************)
None == "None"

\* the characters that occur in the modelled strings, in code-point order
CodePointOrder ==
    <<"-",".","/","0","1","2","3","4","5","6","7","8","9",":",
      "A","B","C","D","E","F","G","H","I","J","K","L","M","N","O","P","Q","R","S","T","U","V","W","X","Y","Z",
      "_",
      "a","b","c","d","e","f","g","h","i","j","k","l","m","n","o","p","q","r","s","t","u","v","w","x","y","z">>

\* ord(c), up to an order-preserving renumbering
OrdTable ==
    [c \in {CodePointOrder[i] : i \in 1..Len(CodePointOrder)} |->
        CHOOSE i \in 1..Len(CodePointOrder) : CodePointOrder[i] = c]

Ord(c) == OrdTable[c]

UpperChars == <<"A","B","C","D","E","F","G","H","I","J","K","L","M","N","O","P","Q","R","S","T","U","V","W","X","Y","Z">>
LowerChars == <<"a","b","c","d","e","f","g","h","i","j","k","l","m","n","o","p","q","r","s","t","u","v","w","x","y","z">>

\* str.lower() on one character
LowerChar(c) ==
    IF \E i \in 1..Len(UpperChars) : UpperChars[i] = c
    THEN LowerChars[CHOOSE i \in 1..Len(UpperChars) : UpperChars[i] = c]
    ELSE c

\* str.lower()
Lower(s) == [i \in 1..Len(s) |-> LowerChar(s[i])]

\* s[i:] starts with sub
StartsAt(s, i, sub) ==
    /\ i + Len(sub) - 1 <= Len(s)
    /\ \A k \in 1..Len(sub) : s[i + k - 1] = sub[k]

\* sub in s
Contains(s, sub) == \E i \in 1..(Len(s) - Len(sub) + 1) : StartsAt(s, i, sub)

\* s.replace(old, new) from position i on: non-overlapping, left to right
RECURSIVE ReplaceFrom(_, _, _, _)
ReplaceFrom(s, i, old, new) ==
    IF i > Len(s) THEN <<>>
    ELSE IF StartsAt(s, i, old)
         THEN new \o ReplaceFrom(s, i + Len(old), old, new)
         ELSE <<s[i]>> \o ReplaceFrom(s, i + 1, old, new)

Replace(s, old, new) == ReplaceFrom(s, 1, old, new)

\* a < b for Python str: lexicographic by code point, a proper prefix is smaller
RECURSIVE StrLessFrom(_, _, _)
StrLessFrom(a, b, k) ==
    IF k > Len(b) THEN FALSE
    ELSE IF k > Len(a) THEN TRUE
    ELSE IF a[k] = b[k] THEN StrLessFrom(a, b, k + 1)
    ELSE Ord(a[k]) < Ord(b[k])

StrLess(a, b) == StrLessFrom(a, b, 1)

\* sorted(list(S)) for a set of strings
RECURSIVE Sorted(_)
Sorted(S) ==
    IF S = {} THEN <<>>
    ELSE LET m == CHOOSE x \in S : \A y \in S \ {x} : StrLess(x, y)
         IN  <<m>> \o Sorted(S \ {m})

DigitChars == <<"0","1","2","3","4","5","6","7","8","9">>

\* the decimal text of n, zero-padded to w digits (n < 10^w)
RECURSIVE Pad(_, _)
Pad(n, w) == IF w = 0 THEN <<>> ELSE Pad(n \div 10, w - 1) \o <<DigitChars[(n % 10) + 1]>>

\* str(n) for 1 <= n <= 9, as used for the numeric suffix
Str(n) == <<DigitChars[n + 1]>>

(***************************************************************************)
(* Dates: a datetime is the number of days after Epoch                     *)
(***************************************************************************)
Epoch == [year |-> 2025, month |-> 1, day |-> 31]

IsLeap(y) == (y % 4 = 0 /\ y % 100 # 0) \/ y % 400 = 0

DaysInMonth(y, m) ==
    IF m = 2 THEN (IF IsLeap(y) THEN 29 ELSE 28)
    ELSE IF m \in {4, 6, 9, 11} THEN 30 ELSE 31

\* the calendar date n days after the first of month (y, m)
RECURSIVE FromMonthStart(_, _, _)
FromMonthStart(y, m, n) ==
    IF n < DaysInMonth(y, m)
    THEN [year |-> y, month |-> m, day |-> n + 1]
    ELSE FromMonthStart(IF m = 12 THEN y + 1 ELSE y, IF m = 12 THEN 1 ELSE m + 1,
                        n - DaysInMonth(y, m))

\* Epoch + timedelta(days=n)
DateOf(n) == FromMonthStart(Epoch.year, Epoch.month, Epoch.day - 1 + n)

\* date.strftime("%Y%m%d")
DateStr(n) ==
    LET d == DateOf(n) IN Pad(d.year, 4) \o Pad(d.month, 2) \o Pad(d.day, 2)

Days == 0..(NumDays - 1)

\* "mingpao-canada-hk-news": the default IA_IDENTIFIER_PREFIX
IA_IDENTIFIER_PREFIX ==
    <<"m","i","n","g","p","a","o","-","c","a","n","a","d","a","-","h","k","-","n","e","w","s">>

\* bucket_id = f"{prefix}-{current_date.year}-{current_date.month:02d}"
BucketId(n) ==
    LET d == DateOf(n)
    IN  IA_IDENTIFIER_PREFIX \o <<"-">> \o Pad(d.year, 4) \o <<"-">> \o Pad(d.month, 2)

(***************************************************************************)
(* url_generator.py: MingPaoUrlGenerator                                   *)
(***************************************************************************)
\* "http://www.mingpaocanada.com/tor"
BASE_URL ==
    <<"h","t","t","p",":","/","/","w","w","w",".","m","i","n","g","p","a","o",
      "c","a","n","a","d","a",".","c","o","m","/","t","o","r">>

HK_GA_PREFIXES ==
    << <<"g","a","a">>, <<"g","a","b">>, <<"g","a","c">>, <<"g","a","d">>,
       <<"g","a","e">>, <<"g","a","f">>, <<"g","b","a">>, <<"g","b","b">>,
       <<"g","b","c">>, <<"g","b","d">>, <<"g","b","e">>, <<"g","b","f">>,
       <<"g","c","a">>, <<"g","c","b">>, <<"g","c","c">>, <<"g","c","d">>,
       <<"g","c","e">>, <<"g","c","f">>, <<"g","g","a">>, <<"g","g","b">>,
       <<"g","g","c">>, <<"g","g","d">>, <<"g","g","e">>, <<"g","g","f">>,
       <<"g","g","h">>, <<"g","h","a">>, <<"g","h","b">>, <<"g","h","c">>,
       <<"g","h","d">>, <<"g","h","e">>, <<"g","h","f">>, <<"g","m","a">>,
       <<"g","m","b">>, <<"g","m","c">>, <<"g","m","d">>, <<"g","m","e">>,
       <<"g","m","f">>, <<"g","m","g">>, <<"g","z","a">>, <<"g","z","b">>,
       <<"g","z","c">> >>

\* "/htm/News/", "/HK-", "_r.htm", "../../../", "index", "News/"
S_HTM_NEWS == <<"/","h","t","m","/","N","e","w","s","/">>
S_HK == <<"/","H","K","-">>
S_R_HTM == <<"_","r",".","h","t","m">>
S_UP3 == <<".",".","/",".",".","/",".",".","/">>
S_INDEX == <<"i","n","d","e","x">>
S_NEWS == <<"N","e","w","s","/">>
S_SLASH == <<"/">>

\* range(1, 9): the numeric suffixes of the brute-force list
BruteforceNums == <<1, 2, 3, 4, 5, 6, 7, 8>>

\* the inner loop of _generate_bruteforce for one prefix, from suffix index k on
RECURSIVE BruteforceNumLoop(_, _, _)
BruteforceNumLoop(base_path, prefix, k) ==
    IF k > Len(BruteforceNums) THEN <<>>
    ELSE <<base_path \o S_HK \o prefix \o Str(BruteforceNums[k]) \o S_R_HTM>>
         \o BruteforceNumLoop(base_path, prefix, k + 1)

\* the outer loop of _generate_bruteforce, from prefix index p on
RECURSIVE BruteforcePrefixLoop(_, _)
BruteforcePrefixLoop(base_path, p) ==
    IF p > Len(HK_GA_PREFIXES) THEN <<>>
    ELSE BruteforceNumLoop(base_path, HK_GA_PREFIXES[p], 1)
         \o BruteforcePrefixLoop(base_path, p + 1)

\* a faulty variant: the suffix range stops one short (range(1, 8))
GenerateBruteforceShort(target_date) ==
    LET full == BruteforcePrefixLoop(BASE_URL \o S_HTM_NEWS \o DateStr(target_date), 1)
    IN  SelectSeq(full, LAMBDA u : ~Contains(u, <<"8">> \o S_R_HTM))

\* _generate_bruteforce(target_date)
GenerateBruteforce(target_date) ==
    BruteforcePrefixLoop(BASE_URL \o S_HTM_NEWS \o DateStr(target_date), 1)

\* default max_retries of _discover_from_index
DISCOVER_MAX_RETRIES == 3

NotFoundStatuses == {404, 301, 302, 303, 307, 308}

\* a faulty variant: links of other dates are not skipped
RECURSIVE CollectArticleUrlsAnyDate(_, _, _)
CollectArticleUrlsAnyDate(matches, k, date_str) ==
    IF k > Len(matches) THEN {}
    ELSE LET relative_path == matches[k]
             clean_path == Replace(relative_path, S_UP3, <<>>)
             rest == CollectArticleUrlsAnyDate(matches, k + 1, date_str)
         IN  IF Contains(Lower(relative_path), S_INDEX) THEN rest
             ELSE {BASE_URL \o S_SLASH \o clean_path} \cup rest

\* the loop body over re.findall's matches: the URLs collected from matches[k..]
RECURSIVE CollectArticleUrls(_, _, _)
CollectArticleUrls(matches, k, date_str) ==
    IF k > Len(matches) THEN {}
    ELSE LET relative_path == matches[k]
             clean_path == Replace(relative_path, S_UP3, <<>>)
             rest == CollectArticleUrls(matches, k + 1, date_str)
         IN  IF Contains(Lower(relative_path), S_INDEX) THEN rest
             ELSE IF ~Contains(clean_path, S_NEWS \o date_str \o S_SLASH) THEN rest
             ELSE {BASE_URL \o S_SLASH \o clean_path} \cup rest

\* the idle call frame
DiscIdle ==
    [pc |-> "idle", date |-> 0, attempt |-> 0, fetches |-> 0,
     last_exc |-> FALSE, last_status |-> 0,
     index_urls |-> <<>>, urls |-> <<>>, raised |-> FALSE]

\* get_article_urls(target_date) entered: _discover_from_index starts its loop
DiscCall(target_date) ==
    [DiscIdle EXCEPT !.pc = "fetch", !.date = target_date]

\* _discover_from_index returns index_urls; get_article_urls falls back if empty
DiscReturn(f, index_urls) ==
    [f EXCEPT !.pc = "ret", !.index_urls = index_urls,
              !.urls = IF index_urls = <<>> THEN GenerateBruteforce(f.date)
                       ELSE index_urls]

\* the except clause of _discover_from_index
DiscHandler(f) ==
    IF f.attempt < DISCOVER_MAX_RETRIES
    THEN [f EXCEPT !.attempt = f.attempt + 1]          \* sleep, next attempt
    ELSE DiscReturn(f, <<>>)                           \* loop ends, return []

\* a faulty variant: the last failed attempt re-raises instead of returning []
DiscoverAttemptReraise(f, r) ==
    LET g == [f EXCEPT !.fetches = f.fetches + 1,
                       !.last_exc = r.exc, !.last_status = r.status]
    IN  IF r.exc \/ r.status \notin (NotFoundStatuses \cup {200})
        THEN IF g.attempt < DISCOVER_MAX_RETRIES
             THEN [g EXCEPT !.attempt = g.attempt + 1]
             ELSE [g EXCEPT !.pc = "ret", !.raised = TRUE]
        ELSE IF r.status \in NotFoundStatuses THEN DiscReturn(g, <<>>)
        ELSE DiscReturn(g, Sorted(CollectArticleUrls(r.matches, 1, DateStr(g.date))))

\* one iteration of the retry loop of _discover_from_index on response r
DiscoverAttempt(f, r) ==
    LET g == [f EXCEPT !.fetches = f.fetches + 1,
                       !.last_exc = r.exc, !.last_status = r.status]
    IN  IF r.exc THEN DiscHandler(g)
        ELSE IF r.status = 404 THEN DiscReturn(g, <<>>)
        ELSE IF r.status \in {301, 302, 303, 307, 308} THEN DiscReturn(g, <<>>)
        ELSE IF r.status # 200 THEN DiscHandler(g)     \* raise RequestException
        ELSE DiscReturn(g, Sorted(CollectArticleUrls(r.matches, 1, DateStr(g.date))))

(***************************************************************************)
(* The source site's index page: responses drawn from small sets           *)
(***************************************************************************)
\* an href of the index page of date n: prefix, date and article code
Href(prefix, n, code) == prefix \o <<"h","t","m","/">> \o S_NEWS \o DateStr(n) \o <<"/","H","K","-">> \o code \o S_R_HTM

C_gaa1 == <<"g","a","a","1">>
C_gab2 == <<"g","a","b","2">>
C_tab1 == <<"t","a","b","1">>
C_GAindex == <<"G","A","i","n","d","e","x">>

\* index pages with at least one article link of the date
LinkedPages(n) ==
    { <<Href(S_UP3, n, C_gaa1)>>,
      <<Href(S_UP3, n, C_gab2), Href(S_UP3, n, C_gaa1), Href(S_UP3, n, C_GAindex)>>,
      <<Href(S_UP3, n, C_tab1), Href(S_UP3, n, C_gab2), Href(<<>>, n, C_gaa1),
        Href(S_UP3, n, C_gaa1), Href(S_UP3, n + 1, C_gaa1)>> }

\* index pages without any article link of the date
UnlinkedPages(n) ==
    { <<>>,
      <<Href(S_UP3, n, C_GAindex)>>,
      <<Href(S_UP3, n + 1, C_gaa1), Href(S_UP3, n, C_GAindex)>> }

Resp(status, matches) == [exc |-> FALSE, status |-> status, matches |-> matches]
RespExc == [exc |-> TRUE, status |-> 0, matches |-> <<>>]

\* every kind of answer to the index request
IndexResponses(n) ==
    {RespExc}
    \cup {Resp(s, <<>>) : s \in {404, 301, 302, 303, 307, 308, 500, 503, 403}}
    \cup {Resp(200, p) : p \in LinkedPages(n) \cup UnlinkedPages(n)}

\* the index page of the site main() runs against: the first date lists three
\* articles (one of them twice, and one link of another date), every later
\* date lists one
SiteIndexPage(n) ==
    IF n = 0
    THEN <<Href(S_UP3, n, C_tab1), Href(S_UP3, n, C_gab2), Href(<<>>, n, C_gaa1),
           Href(S_UP3, n, C_gaa1), Href(S_UP3, n + 1, C_gaa1)>>
    ELSE <<Href(S_UP3, n, C_gaa1)>>

SiteIndexResponses(n) == {Resp(200, SiteIndexPage(n))}

(***************************************************************************)
(* database.py: ArchiveDB (table uploads, url TEXT PRIMARY KEY)            *)
(***************************************************************************)
UploadRow(url, bucket, key, title) ==
    [url |-> url, ia_bucket |-> bucket, ia_key |-> key, title |-> title]

\* is_archived(url): SELECT 1 FROM uploads WHERE url = ?
IsArchivedNever(rows, url) == FALSE

IsArchived(rows, url) == \E r \in rows : r.url = url

\* a faulty variant: a plain INSERT into a table without primary key
RecordUploadInsertOnly(rows, url, bucket, key, title) ==
    rows \cup {UploadRow(url, bucket, key, title)}

\* a faulty variant: the INSERT is never committed
RecordUploadNoCommit(rows, url, bucket, key, title) == rows

\* record_upload: INSERT OR REPLACE INTO uploads (url, ia_bucket, ia_key, title)
RecordUpload(rows, url, bucket, key, title) ==
    {r \in rows : r.url # url} \cup {UploadRow(url, bucket, key, title)}

\* get_archived_urls(): SELECT url FROM uploads
GetArchivedUrls(rows) == {r.url : r \in rows}

\* table progress is empty after _init_db creates it: lines 31-36
NoProgress == {}

\* set_last_processed_date: INSERT OR REPLACE of the row keyed
\* 'last_processed_date'
SetLastProcessedDate(rows, date_str) ==
    {r \in rows : r.key # "last_processed_date"}
    \cup {[key |-> "last_processed_date", value |-> date_str]}

\* get_last_processed_date: the value of that row, or None
GetLastProcessedDate(rows) ==
    IF \E r \in rows : r.key = "last_processed_date"
    THEN (CHOOSE r \in rows : r.key = "last_processed_date").value
    ELSE None

(***************************************************************************)
(* ia_s3_client.py: sanitize_id                                            *)
(***************************************************************************)
\* the characters of the class [a-z0-9] and of the class [a-z0-9\-\.]
AlnumChars ==
    {LowerChars[i] : i \in 1..Len(LowerChars)} \cup {DigitChars[i] : i \in 1..Len(DigitChars)}

IdChars == AlnumChars \cup {"-", "."}

\* line 45: re.sub(r'[^a-z0-9\-\.]', '-', identifier)
SubNonCompliant(s) == [i \in 1..Len(s) |-> IF s[i] \in IdChars THEN s[i] ELSE "-"]

\* a faulty variant: the pattern ^[^a-z0-9] without the +
StripLeadingOne(s) == IF s # <<>> /\ Head(s) \notin AlnumChars THEN Tail(s) ELSE s

\* line 47: re.sub(r'^[^a-z0-9]+', '', identifier)
RECURSIVE StripLeading(_)
StripLeading(s) ==
    IF s # <<>> /\ Head(s) \notin AlnumChars THEN StripLeading(Tail(s)) ELSE s

\* sanitize_id(identifier)
SanitizeId(identifier) == StripLeading(SubNonCompliant(Lower(identifier)))

(***************************************************************************)
(* ia_s3_client.py: upload_file and verify_file_uploaded                   *)
(***************************************************************************)
\* default max_retries of upload_file
UPLOAD_MAX_RETRIES == 3

\* answers to the PUT: a status, or a raised error
UploadResponses == {Resp(s, <<>>) : s \in {200, 500, 403}} \cup {RespExc}

\* the retry loop of upload_file from attempt on, resps[k] answering request k
RECURSIVE UploadFileLoop(_, _, _)
UploadFileLoop(resps, attempt, max_retries) ==
    IF attempt > max_retries THEN [ret |-> FALSE, requests |-> attempt]
    ELSE LET r == resps[attempt + 1] IN
         IF r.exc
         THEN IF attempt < max_retries
              THEN UploadFileLoop(resps, attempt + 1, max_retries)
              ELSE [ret |-> FALSE, requests |-> attempt + 1]
         ELSE IF r.status = 200 THEN [ret |-> TRUE, requests |-> attempt + 1]
         ELSE IF r.status = 500 /\ attempt < max_retries
              THEN UploadFileLoop(resps, attempt + 1, max_retries)
         ELSE [ret |-> FALSE, requests |-> attempt + 1]

\* the frame of upload_file; resps is the history of the answers received
UpIdle ==
    [pc |-> "idle", bucket_arg |-> <<>>, bucket |-> <<>>, max_retries |-> 0,
     attempt |-> 0, resps |-> <<>>, ret |-> FALSE]

\* upload_file(bucket, ..., max_retries) is entered: lines 71-92
UploadCall(bucket, max_retries) ==
    [UpIdle EXCEPT !.pc = "request", !.bucket_arg = bucket, !.bucket = SanitizeId(bucket),
                   !.max_retries = max_retries]

UploadReturn(u, ret) == [u EXCEPT !.pc = "ret", !.ret = ret]

\* a faulty variant: a raised error is not retried
UploadAttemptNoRetryOnError(u, r) ==
    LET g == [u EXCEPT !.resps = Append(u.resps, r)] IN
    IF r.exc THEN UploadReturn(g, FALSE)
    ELSE IF r.status = 200 THEN UploadReturn(g, TRUE)
    ELSE IF r.status = 500 /\ g.attempt < g.max_retries
         THEN [g EXCEPT !.attempt = g.attempt + 1]
    ELSE UploadReturn(g, FALSE)

\* lines 94-119: one iteration of the retry loop, the PUT answered by r
UploadAttempt(u, r) ==
    LET g == [u EXCEPT !.resps = Append(u.resps, r)] IN
    IF r.exc
    THEN IF g.attempt < g.max_retries THEN [g EXCEPT !.attempt = g.attempt + 1]
         ELSE UploadReturn(g, FALSE)
    ELSE IF r.status = 200 THEN UploadReturn(g, TRUE)
    ELSE IF r.status = 500 /\ g.attempt < g.max_retries
         THEN [g EXCEPT !.attempt = g.attempt + 1]
    ELSE UploadReturn(g, FALSE)

\* upload_file(bucket, key, content, ...) with the default max_retries
UploadFile(resps) == UploadFileLoop(resps, 0, UPLOAD_MAX_RETRIES)

\* what upload_file can return, over all answers of the store
UploadFileOutcomes ==
    {UploadFile(rs) : rs \in [1..(UPLOAD_MAX_RETRIES + 1) -> UploadResponses]}

\* default max_retries of verify_file_uploaded: the number of polls
VERIFY_MAX_RETRIES == 5

\* answers to a poll of the metadata endpoint: 200 with the key among the
\* files, 200 with other files, 200 without a files entry, 200 with a body
\* that is no JSON, another status, a raised error
VerifyResponses == {"has_key", "no_key", "no_files", "bad_json", "non200", "exc"}

\* the polling loop of verify_file_uploaded from attempt on
RECURSIVE VerifyLoop(_, _, _)
VerifyLoop(resps, attempt, max_retries) ==
    IF attempt >= max_retries THEN [ret |-> FALSE, polls |-> attempt]
    ELSE IF resps[attempt + 1] = "has_key" THEN [ret |-> TRUE, polls |-> attempt + 1]
    ELSE VerifyLoop(resps, attempt + 1, max_retries)

\* the frame of verify_file_uploaded; resps is the history of the answers
\* received, waits the seconds slept after each of them
VfIdle ==
    [pc |-> "idle", max_retries |-> 0, attempt |-> 0, resps |-> <<>>, waits |-> <<>>,
     ret |-> FALSE]

\* the for loop tests its range: lines 142, 172-173
VerifyNext(v) ==
    IF v.attempt < v.max_retries THEN [v EXCEPT !.pc = "poll"]
    ELSE [v EXCEPT !.pc = "ret", !.ret = FALSE]

\* verify_file_uploaded(bucket, key, max_retries) is entered
VerifyCall(max_retries) == VerifyNext([VfIdle EXCEPT !.max_retries = max_retries])

\* lines 158-170: the sleep after a poll that did not find the key
VerifyWait(v, r) ==
    IF v.attempt < v.max_retries - 1
    THEN IF r \in {"no_key", "no_files"} THEN 5 * (v.attempt + 1) ELSE 5
    ELSE 0

\* lines 143-170: one poll, answered by r
VerifyAttempt(v, r) ==
    LET g == [v EXCEPT !.resps = Append(v.resps, r)] IN
    IF r = "has_key" THEN [g EXCEPT !.pc = "ret", !.ret = TRUE]
    ELSE VerifyNext([g EXCEPT !.attempt = g.attempt + 1,
                              !.waits = IF VerifyWait(g, r) > 0
                                        THEN Append(g.waits, VerifyWait(g, r))
                                        ELSE g.waits])

\* verify_file_uploaded(bucket, key) with the default max_retries
VerifyFileUploaded(resps) == VerifyLoop(resps, 0, VERIFY_MAX_RETRIES)

\* what verify_file_uploaded can return, over all answers of the endpoint
VerifyOutcomes ==
    {VerifyFileUploaded(rs) : rs \in [1..VERIFY_MAX_RETRIES -> VerifyResponses]}

(***************************************************************************)
(* main.py: extract_article_title and archive_article                      *)
(***************************************************************************)
\* fetched bodies: empty is b""; parts is the text of the <title> tag split
\* at " - ", <<>> when the page has no usable title tag
Content(empty, parts) == [empty |-> empty, parts |-> parts]

NoContent == Content(TRUE, <<>>)

Contents ==
    { Content(TRUE, <<>>),
      Content(FALSE, <<>>),
      Content(FALSE, <<"Headline Text", "Ming Pao">>),
      Content(FALSE, <<"", "Ming Pao">>) }

\* extract_article_title(content)
ExtractArticleTitle(content) ==
    IF content.parts = <<>> THEN None ELSE content.parts[1]

\* Python truth of an optional string
Truthy(title) == title \notin {None, ""}

IsDigit(c) == \E k \in 1..Len(DigitChars) : DigitChars[k] = c

\* re: "News/" \d{8} "/HK-" matches at position p of url
KeyHeadAt(url, p) ==
    /\ StartsAt(url, p, S_NEWS)
    /\ p + 16 <= Len(url)
    /\ \A k \in (p + 5)..(p + 12) : IsDigit(url[k])
    /\ StartsAt(url, p + 13, S_HK)

\* re: [^/]+ then "_r.htm", the latter starting at position q
KeyTailAt(url, p, q) ==
    /\ q >= p + 18
    /\ StartsAt(url, q, S_R_HTM)
    /\ \A k \in (p + 17)..(q - 1) : url[k] # "/"

KeyMatchAt(url, p) == KeyHeadAt(url, p) /\ \E q \in 1..Len(url) : KeyTailAt(url, p, q)

\* "/".join(url.split("/")[-2:])
LastTwoSegments(url) ==
    LET slashes == {k \in 1..Len(url) : url[k] = "/"}
        last == CHOOSE k \in slashes : \A j \in slashes : j <= k
        before == slashes \ {last}
        prev == CHOOSE k \in before : \A j \in before : j <= k
    IN  IF Cardinality(slashes) < 2 THEN url
        ELSE SubSeq(url, prev + 1, Len(url))

\* re.search(r'News/(\d{8}/HK-[^/]+_r\.htm)', url) finds a match
HasKeyMatch(url) == \E p \in 1..Len(url) : KeyMatchAt(url, p)

\* match.group(1): leftmost match, [^/]+ greedy
KeyMatch(url) ==
    LET p == CHOOSE x \in 1..Len(url) :
                KeyMatchAt(url, x) /\ \A y \in 1..(x - 1) : ~KeyMatchAt(url, y)
        q == CHOOSE x \in 1..Len(url) :
                KeyTailAt(url, p, x) /\ \A y \in (x + 1)..Len(url) : ~KeyTailAt(url, p, y)
    IN  SubSeq(url, p + 5, q + 5)

\* lines 62-66: the key of archive_article
KeyOf(url) == IF HasKeyMatch(url) THEN KeyMatch(url) ELSE LastTwoSegments(url)

\* answers to the article GET
ArticleResp(status, content) == [exc |-> FALSE, status |-> status, content |-> content]
ArticleExc == [exc |-> TRUE, status |-> 0, content |-> NoContent]

ArticleResponses ==
    {ArticleExc}
    \cup {ArticleResp(s, NoContent) : s \in {404, 301, 302, 303, 307, 308, 500, 503, 403}}
    \cup {ArticleResp(200, c) : c \in Contents}

\* the answers of the site main() runs against: an article page with a
\* title, a missing article, a connection error
SiteResponses ==
    {ArticleExc, ArticleResp(404, NoContent),
     ArticleResp(200, Content(FALSE, <<"Headline Text", "Ming Pao">>))}

\* a frame that holds no call; result keeps the value of the last call
FrameOf(pc, result) ==
    [pc |-> pc, url |-> <<>>, bucket |-> <<>>, key |-> <<>>, attempt |-> 0,
     content |-> NoContent, title |-> None, success |-> FALSE,
     \* history of the call
     fetches |-> 0, last_exc |-> FALSE, last_status |-> 0,
     all_transient |-> TRUE, uploads |-> 0, verified |-> FALSE,
     enq |-> "no", wrote |-> FALSE, db_error |-> "no",
     \* whole seconds slept by the fetch loop (each sleep adds a random
     \* fraction of a second), and those slept before the current attempt
     slept |-> 0, last_wait |-> 0, result |-> result]

\* archive_article(url, ia_client, bucket, db, ...) is entered
FrameCall(url, bucket) ==
    [FrameOf("start", "-") EXCEPT !.url = url, !.bucket = bucket]

\* return value
FrameReturn(f, result) == [f EXCEPT !.pc = "ret", !.result = result]

\* lines 58-69: the Ledger short-circuit, then the key
\* (err: db.is_archived raises; nothing catches it inside archive_article)
ArchiveStart(f, rows, err) ==
    IF err THEN FrameReturn([f EXCEPT !.db_error = "read"], "raise")
    ELSE IF IsArchived(rows, f.url) THEN FrameReturn(f, "True")
    ELSE [f EXCEPT !.pc = "fetch", !.key = KeyOf(f.url), !.attempt = 0]

\* the for loop advances; after its last iteration content is still None
FetchNext(f, max_retries) ==
    IF f.attempt < max_retries THEN [f EXCEPT !.attempt = f.attempt + 1, !.last_wait = 0]
    ELSE FrameReturn(f, "False")

\* 2 ** n
RECURSIVE Pow2(_)
Pow2(n) == IF n = 0 THEN 1 ELSE 2 * Pow2(n - 1)

\* lines 90-92: time.sleep((2 ** attempt) + random.random()), next attempt
FetchSleep(f) ==
    [f EXCEPT !.attempt = f.attempt + 1, !.slept = f.slept + Pow2(f.attempt),
              !.last_wait = Pow2(f.attempt)]

\* a faulty variant: a redirect is logged like any other status and retried
FetchAttemptRedirectRetried(f, r, max_retries) ==
    LET g == [f EXCEPT !.fetches = f.fetches + 1, !.last_exc = r.exc,
                       !.last_status = r.status,
                       !.all_transient = f.all_transient
                            /\ (r.exc \/ r.status \notin {200, 404, 301, 302, 303, 307, 308})]
    IN  IF r.exc THEN FetchNext(g, max_retries)
        ELSE IF r.status = 200
             THEN IF r.content.empty THEN FrameReturn([g EXCEPT !.content = r.content], "False")
                  ELSE [g EXCEPT !.content = r.content, !.pc = "upload"]
        ELSE IF r.status = 404 THEN FrameReturn(g, "False")
        ELSE FetchNext(g, max_retries)

\* a faulty variant: the retry loop is range(max_retries)
FetchAttemptOneShort(f, r, max_retries) ==
    LET g == [f EXCEPT !.fetches = f.fetches + 1, !.last_exc = r.exc,
                       !.last_status = r.status,
                       !.all_transient = f.all_transient
                            /\ (r.exc \/ r.status \notin {200, 404, 301, 302, 303, 307, 308})]
    IN  IF r.exc \/ r.status \notin {200, 404, 301, 302, 303, 307, 308}
        THEN IF g.attempt + 1 < max_retries THEN [g EXCEPT !.attempt = g.attempt + 1]
             ELSE FrameReturn(g, "False")
        ELSE IF r.status = 200
             THEN IF r.content.empty THEN FrameReturn([g EXCEPT !.content = r.content], "False")
                  ELSE [g EXCEPT !.content = r.content, !.pc = "upload"]
        ELSE FrameReturn(g, "False")

\* lines 72-98: one iteration of the fetch loop on response r
FetchAttempt(f, r, max_retries) ==
    LET g == [f EXCEPT !.fetches = f.fetches + 1, !.last_exc = r.exc,
                       !.last_status = r.status,
                       !.all_transient = f.all_transient
                            /\ (r.exc \/ r.status \notin {200, 404, 301, 302, 303, 307, 308})]
    IN  IF r.exc
        THEN IF g.attempt < max_retries
             THEN FetchSleep(g)                                 \* sleep, retry
             ELSE FrameReturn(g, "False")
        ELSE IF r.status = 200
             THEN \* break; then "if not content: return False"
                  IF r.content.empty THEN FrameReturn([g EXCEPT !.content = r.content], "False")
                  ELSE [g EXCEPT !.content = r.content, !.pc = "upload"]
        ELSE IF r.status = 404 THEN FrameReturn(g, "False")
        ELSE IF r.status \in {301, 302, 303, 307, 308} THEN FrameReturn(g, "False")
        ELSE FetchNext(g, max_retries)                          \* logged, next attempt

\* a faulty variant: a task is queued whatever the title
AfterConfirmedAnyTitle(f, has_queue) ==
    IF has_queue THEN [f EXCEPT !.pc = "enqueue"]
    ELSE [f EXCEPT !.pc = "record"]

\* lines 121-122: after a confirmed upload, enqueue a task or go on to record
AfterConfirmed(f, has_queue) ==
    IF Truthy(f.title) /\ has_queue THEN [f EXCEPT !.pc = "enqueue"]
    ELSE [f EXCEPT !.pc = "record"]

\* a faulty variant: the Ledger is written whatever upload_file returned
ArchiveUploadAlwaysRecords(f, o, verify_upload, has_queue) ==
    LET g == [f EXCEPT !.title = ExtractArticleTitle(f.content),
                       !.success = o.ret, !.uploads = f.uploads + 1]
    IN  IF verify_upload /\ g.success THEN [g EXCEPT !.pc = "verify"]
        ELSE AfterConfirmed(g, has_queue)

\* lines 100-116: title, metadata, upload_file returning o
ArchiveUpload(f, o, verify_upload, has_queue) ==
    LET g == [f EXCEPT !.title = ExtractArticleTitle(f.content),
                       !.success = o.ret, !.uploads = f.uploads + 1]
    IN  IF g.success
        THEN IF verify_upload THEN [g EXCEPT !.pc = "verify"]
             ELSE AfterConfirmed(g, has_queue)
        ELSE FrameReturn(g, None)            \* falls off the end of the function

\* lines 117-119: verify_file_uploaded returning v
ArchiveVerify(f, v, has_queue) ==
    IF ~v.ret THEN FrameReturn(f, "False")
    ELSE AfterConfirmed([f EXCEPT !.verified = TRUE], has_queue)

\* a faulty variant: record_upload is called outside the try block
ArchiveRecordUncaught(f, err) ==
    IF err THEN FrameReturn([f EXCEPT !.db_error = "write"], "raise")
    ELSE FrameReturn([f EXCEPT !.wrote = TRUE], "True")

\* lines 129-133: db.record_upload returns, or raises (err) into the except
\* clause of line 131
ArchiveRecord(f, err) ==
    IF err THEN FrameReturn([f EXCEPT !.db_error = "write"], "False")
    ELSE FrameReturn([f EXCEPT !.wrote = TRUE], "True")

\* the item put on the queue at line 125
TaskOf(f) == [bucket |-> f.bucket, key |-> f.key, title |-> f.title]

\* the shutdown sentinel (None) as a queue item
Sentinel == [bucket |-> <<>>, key |-> <<>>, title |-> None]

\* queue.Queue.full() for maxsize > 0
QueueFull(q) == Len(q) >= QueueSize

(***************************************************************************)
(* main.py: catchup_metadata                                               *)
(***************************************************************************)
\* "metadata.txt" and "index.html"
S_METADATA_TXT == <<"m","e","t","a","d","a","t","a",".","t","x","t">>
S_INDEX_HTML == <<"i","n","d","e","x",".","h","t","m","l">>

\* get_title_by_key(key): the title of the row with that ia_key, or None
GetTitleByKey(rows, key) ==
    IF \E r \in rows : r.ia_key = key
    THEN (CHOOSE r \in rows : r.ia_key = key).title
    ELSE None

\* lines 211-222: the bucket of every month from that of start_date while
\* the first of the month is not after end_date
RECURSIVE MonthBuckets(_, _, _, _)
MonthBuckets(y, m, ye, me) ==
    IF y < ye \/ (y = ye /\ m <= me)
    THEN {IA_IDENTIFIER_PREFIX \o <<"-">> \o Pad(y, 4) \o <<"-">> \o Pad(m, 2)}
         \cup MonthBuckets(IF m = 12 THEN y + 1 ELSE y, IF m = 12 THEN 1 ELSE m + 1, ye, me)
    ELSE {}

BucketsToCheck(start_date, end_date) ==
    MonthBuckets(DateOf(start_date).year, DateOf(start_date).month,
                 DateOf(end_date).year, DateOf(end_date).month)

\* the frame of catchup_metadata; puts is the history of the tasks the queue
\* accepted, saw_full whether a put raised queue.Full
CatIdle ==
    [pc |-> "idle", buckets |-> <<>>, bi |-> 0, files |-> <<>>, fi |-> 0,
     queued_count |-> 0, ret |-> 0, puts |-> <<>>, saw_full |-> FALSE]

\* line 226: the for loop over the sorted buckets; line 268 after the last
CatNextBucket(c) ==
    IF c.bi <= Len(c.buckets) THEN [c EXCEPT !.pc = "list"]
    ELSE [c EXCEPT !.pc = "ret", !.ret = c.queued_count]

\* catchup_metadata(ia_client, db, prefix, start_date, end_date, q) is entered
CatCall(start_date, end_date) ==
    CatNextBucket([CatIdle EXCEPT !.buckets = Sorted(BucketsToCheck(start_date, end_date)),
                                  !.bi = 1])

\* line 242: the for loop over the files of the listing
CatNextFile(c) ==
    IF c.fi <= Len(c.files) THEN [c EXCEPT !.pc = "file"]
    ELSE CatNextBucket([c EXCEPT !.bi = c.bi + 1])

\* lines 227-240, 264-266: the listing of the bucket is requested; another
\* status, a body without files, or an error go on with the next bucket
CatListing(c, r) ==
    IF r.kind = "files" THEN CatNextFile([c EXCEPT !.files = r.files, !.fi = 1])
    ELSE CatNextBucket([c EXCEPT !.bi = c.bi + 1])

\* lines 243-250: the file is one to queue a task for
CatWantsTask(c, rows) ==
    /\ c.files[c.fi] \notin {S_METADATA_TXT, S_INDEX_HTML, <<>>}
    /\ Truthy(GetTitleByKey(rows, c.files[c.fi]))

\* the task put at line 254
CatTask(c, rows) ==
    [bucket |-> c.buckets[c.bi], key |-> c.files[c.fi],
     title |-> GetTitleByKey(rows, c.files[c.fi])]

\* lines 242-262: one file of the listing; full: put(block=False) raises
\* queue.Full
CatFile(c, rows, full) ==
    IF ~CatWantsTask(c, rows) THEN CatNextFile([c EXCEPT !.fi = c.fi + 1])
    ELSE IF full THEN [c EXCEPT !.pc = "ret", !.ret = c.queued_count, !.saw_full = TRUE]
    ELSE CatNextFile([c EXCEPT !.fi = c.fi + 1, !.queued_count = c.queued_count + 1,
                               !.puts = Append(c.puts, CatTask(c, rows))])

\* a faulty variant: put(block=True) without timeout never raises queue.Full
PutTimesOutNever(q) == FALSE

\* put(..., block=True, timeout=1.0) raises queue.Full when the queue stays full
PutTimesOut(q) == QueueFull(q)

(***************************************************************************)
(* ia_s3_client.py: update_file_metadata                                   *)
(***************************************************************************)
\* default max_retries of update_file_metadata
META_MAX_RETRIES == 2

\* answers to the POST of the patch: a raised error, or a status with the
\* kind of body it carries
PatchResp(status, body) == [exc |-> FALSE, status |-> status, body |-> body]
PatchExc == [exc |-> TRUE, status |-> 0, body |-> "none"]

\* bodies of a 200: {"success": true}; {"error": "... no changes ..."};
\* {"error": "<other text>"}; {} (no error key); {"error": <not a string>};
\* a body that is no JSON; JSON that is no object
PatchBodies ==
    {"success", "no_changes", "error", "no_error_key", "error_not_str", "bad_json", "not_dict"}

PatchResponses ==
    {PatchExc}
    \cup {PatchResp(200, b) : b \in PatchBodies}
    \cup {PatchResp(s, "none") : s \in {400, 429, 500, 503, 403, 404}}

MetaIdle ==
    [pc |-> "idle", bucket |-> <<>>, filename |-> <<>>, title |-> None,
     attempt |-> 0, requests |-> 0, last_exc |-> FALSE, last_status |-> 0,
     last_body |-> "none", waited |-> 0, ret |-> FALSE, raised |-> FALSE]

MetaReturn(m, ret) == [m EXCEPT !.pc = "ret", !.ret = ret]

\* update_file_metadata(bucket, filename, title) is entered: lines 210-230
MetaCall(bucket, filename, title) ==
    LET m == [MetaIdle EXCEPT !.bucket = bucket, !.filename = filename, !.title = title]
    IN  IF ~Truthy(title) THEN MetaReturn(m, TRUE)      \* nothing to update
        ELSE [m EXCEPT !.pc = "request", !.bucket = SanitizeId(bucket)]

\* lines 234-268: the body of the try block on response r; raise is an
\* exception thrown inside it, otherwise ret is the value it returns
UpdateTry(m, r) ==
    IF r.exc THEN [raise |-> TRUE, ret |-> FALSE, m |-> m]       \* requests.post raises
    ELSE IF r.status = 200
         THEN IF r.body \in {"bad_json", "not_dict", "error_not_str"}
              THEN [raise |-> TRUE, ret |-> FALSE, m |-> m]     \* json(), get(), lower()
              ELSE IF r.body = "success" THEN [raise |-> FALSE, ret |-> TRUE, m |-> m]
              ELSE IF r.body = "no_changes" THEN [raise |-> FALSE, ret |-> TRUE, m |-> m]
              ELSE [raise |-> FALSE, ret |-> TRUE, m |-> m]
    ELSE IF r.status = 400
         THEN IF m.attempt < META_MAX_RETRIES
              THEN [raise |-> FALSE, ret |-> TRUE,
                    m |-> [m EXCEPT !.waited = m.waited + 10 + (5 * m.attempt)]]
              ELSE [raise |-> FALSE, ret |-> TRUE, m |-> m]
    ELSE IF r.status = 429 THEN [raise |-> FALSE, ret |-> TRUE, m |-> m]
    ELSE IF r.status >= 500 THEN [raise |-> FALSE, ret |-> TRUE, m |-> m]
    ELSE [raise |-> FALSE, ret |-> TRUE, m |-> m]

\* a faulty variant: no except clause, an exception of the try block escapes
UpdateAttemptUnhandled(m, r) ==
    LET g == [m EXCEPT !.requests = m.requests + 1, !.last_exc = r.exc,
                       !.last_status = r.status, !.last_body = r.body]
        t == UpdateTry(g, r)
    IN  IF t.raise THEN [t.m EXCEPT !.pc = "ret", !.raised = TRUE]
        ELSE MetaReturn(t.m, t.ret)

\* lines 232-272: one iteration of the request loop on response r
UpdateAttempt(m, r) ==
    LET g == [m EXCEPT !.requests = m.requests + 1, !.last_exc = r.exc,
                       !.last_status = r.status, !.last_body = r.body]
        t == UpdateTry(g, r)
    IN  IF t.raise THEN MetaReturn(t.m, TRUE)        \* except Exception: return True
        ELSE MetaReturn(t.m, t.ret)

\* the whole call, resps[k] answering request k
RECURSIVE UpdateRun(_, _)
UpdateRun(m, resps) ==
    IF m.pc # "request" \/ m.requests >= Len(resps) THEN m
    ELSE UpdateRun(UpdateAttempt(m, resps[m.requests + 1]), resps)

\* what update_file_metadata can do on a task of the queue: its return value
\* and whether an exception escapes it
UpdateFileMetadataOutcomes ==
    { LET m == UpdateRun(MetaCall(<<>>, <<>>, "Headline Text"), rs)
      IN  [ret |-> m.ret, raised |-> m.raised]
      : rs \in [1..(META_MAX_RETRIES + 1) -> PatchResponses] }

(***************************************************************************)
(* main.py: main(), the Orchestrator                                       *)
(***************************************************************************)
\* defaults of MAX_WORKERS and MAX_RETRIES_PER_ARTICLE
MAX_WORKERS == 2
MAX_RETRIES_PER_ARTICLE == 3
\* the look-ahead window of the date loop
BATCH_SIZE == 30

\* a faulty variant: the batch is not capped
RECURSIVE BatchLoopNoCap(_, _, _)
BatchLoopNoCap(dates_to_process, batch_end_date, end_date) ==
    IF batch_end_date <= end_date
    THEN BatchLoopNoCap(Append(dates_to_process, batch_end_date), batch_end_date + 1, end_date)
    ELSE [dates_to_process |-> dates_to_process, batch_end_date |-> batch_end_date]

\* lines 396-400: the inner while loop filling dates_to_process
RECURSIVE BatchLoop(_, _, _)
BatchLoop(dates_to_process, batch_end_date, end_date) ==
    IF Len(dates_to_process) < BATCH_SIZE /\ batch_end_date <= end_date
    THEN BatchLoop(Append(dates_to_process, batch_end_date), batch_end_date + 1, end_date)
    ELSE [dates_to_process |-> dates_to_process, batch_end_date |-> batch_end_date]

\* a faulty variant: every candidate is dispatched
UrlsToProcessUnfiltered(urls, archived_urls) == urls

\* line 413: urls_to_process = [u for u in urls if u not in archived_urls]
UrlsToProcess(urls, archived_urls) == SelectSeq(urls, LAMBDA u : u \notin archived_urls)

\* a submitted call that no worker thread has started
FramePending(url, bucket) ==
    [FrameOf("pending", "-") EXCEPT !.url = url, !.bucket = bucket]

\* lines 420-426: one future per URL, in list order
Submit(urls_to_process, bucket_id) ==
    [i \in 1..Len(urls_to_process) |-> FramePending(urls_to_process[i], bucket_id)]

\* the calls of archive_article in progress
Running(frames) ==
    {i \in DOMAIN frames : frames[i].pc \notin {"pending", "finished", "idle"}}

\* a faulty variant: the pool has a thread for every submitted call
CanStartUnbounded(frames, i) ==
    /\ frames[i].pc = "pending"
    /\ \A j \in 1..(i - 1) : frames[j].pc # "pending"

\* ThreadPoolExecutor(max_workers=MAX_WORKERS): the oldest pending call starts
\* when fewer than MAX_WORKERS calls are in progress
CanStart(frames, i) ==
    /\ frames[i].pc = "pending"
    /\ \A j \in 1..(i - 1) : frames[j].pc # "pending"
    /\ Cardinality(Running(frames)) < MAX_WORKERS

\* a faulty variant: the Orchestrator goes on once every call has been started
PoolDoneOnceStarted(frames, collected) ==
    \A i \in DOMAIN frames : frames[i].pc # "pending"

\* lines 419-430: as_completed has yielded every future and the with block
\* has joined the pool
PoolDone(frames, collected) ==
    /\ collected = DOMAIN frames
    /\ \A i \in DOMAIN frames : frames[i].pc = "finished"

\* executor.shutdown(wait=True) at the end of the with block
PoolJoined(frames) == \A i \in DOMAIN frames : frames[i].pc = "finished"

\* dict lookup in an insertion-ordered dict kept as a sequence of entries
HasEntry(d, k) == \E i \in 1..Len(d) : d[i].k = k
EntryIndex(d, k) == CHOOSE i \in 1..Len(d) : d[i].k = k

\* line 445-447: the keys appended for urls_to_process[k..]
RECURSIVE TrackedKeys(_, _)
TrackedKeys(urls_to_process, k) ==
    IF k > Len(urls_to_process) THEN <<>>
    ELSE (IF HasKeyMatch(urls_to_process[k]) THEN <<KeyMatch(urls_to_process[k])>> ELSE <<>>)
         \o TrackedKeys(urls_to_process, k + 1)

\* lines 438-447: articles_by_month[bucket_id][date_str] extended
TrackArticles(abm, bucket_id, date_str, urls_to_process) ==
    LET a1 == IF HasEntry(abm, bucket_id) THEN abm
              ELSE Append(abm, [k |-> bucket_id, v |-> <<>>])
        b == EntryIndex(a1, bucket_id)
        by_date == a1[b].v
        d1 == IF HasEntry(by_date, date_str) THEN by_date
              ELSE Append(by_date, [k |-> date_str, v |-> <<>>])
        e == EntryIndex(d1, date_str)
        d2 == [d1 EXCEPT ![e].v = d1[e].v \o TrackedKeys(urls_to_process, 1)]
    IN  [a1 EXCEPT ![b].v = d2]

OrchInit(start_date, end_date) ==
    [pc |-> "while", start_date |-> start_date, end_date |-> end_date,
     current_date |-> start_date, batch_end_date |-> start_date,
     dates_to_process |-> <<>>, di |-> 0, urls_to_process |-> <<>>,
     count |-> 0, collected |-> {}, articles_by_month |-> <<>>,
     total_dates_processed |-> 0, ii |-> 0, indexes |-> <<>>, alive |-> FALSE,
     \* history: every URL submitted to a pool, in order, and every date the
     \* for loop has taken, in order
     dispatched |-> <<>>, processed |-> <<>>]

\* the value of local item before the first q.get() returns
NoItem == [bucket |-> <<>>, key |-> <<>>, title |-> ""]

\* metadata_worker is started: line 353
ConsInit == [pc |-> "get", item |-> NoItem]

\* a faulty variant: the sentinel is treated like any other item
WorkerNextNeverExits(item) == "update"

\* lines 355-359: where metadata_worker goes with the item q.get() returned
WorkerNext(item) == IF item = Sentinel THEN "exited" ELSE "update"

\* an exception that escapes update_file_metadata: raised outside its try
\* block (lines 210-230)
EscapedError == [ret |-> FALSE, raised |-> TRUE]

\* a faulty variant: no except clause, the exception ends the thread
WorkerApplyNoExcept(o) == IF o.raised THEN "dead" ELSE "get"

\* lines 360-365: try / except Exception / finally; the loop goes on
WorkerApply(o) == IF o.raised THEN "get" ELSE "get"

\* history kept when conf.trace is set: the tasks put on the queue, the
\* tasks handed to update_file_metadata, the tasks whose update raised
NoHist ==
    [accepted |-> <<>>, applied |-> <<>>, errors |-> <<>>,
     \* the rows written by the record_upload calls of the Ledger harness
     written |-> <<>>]

Logged(log, item) == IF conf.trace THEN Append(log, item) ELSE log

(***************************************************************************)
(* archive_article actions, for the call in frame i                        *)
(***************************************************************************)
SetFrame(i, f) == ex' = [ex EXCEPT ![i] = f]

\* what an archive_article step leaves alone besides the Ledger and the queue
aaOthers == <<disc, bf_first, rows0, conf, orch, cons, meta, progress, up, vfy, cat, hist>>

\* whether a call on the Ledger raises (sqlite3 error): only when the
\* configuration lets the Ledger fail
LedgerErrors == IF conf.faults THEN BOOLEAN ELSE {FALSE}

AA_Start(i) ==
    /\ ex[i].pc = "start"
    /\ \E err \in LedgerErrors : SetFrame(i, ArchiveStart(ex[i], uploads, err))
    /\ UNCHANGED <<uploads, mq, unfinished>>
    /\ UNCHANGED aaOthers

\* one GET of the article, answered from R
AA_Fetch(i, R) ==
    /\ ex[i].pc = "fetch"
    /\ \E r \in R : SetFrame(i, FetchAttempt(ex[i], r, conf.max_retries))
    /\ UNCHANGED <<uploads, mq, unfinished>>
    /\ UNCHANGED aaOthers

AA_Upload(i) ==
    /\ ex[i].pc = "upload"
    /\ \E o \in UploadFileOutcomes :
          SetFrame(i, ArchiveUpload(ex[i], o, conf.verify_upload, conf.has_queue))
    /\ UNCHANGED <<uploads, mq, unfinished>>
    /\ UNCHANGED aaOthers

AA_Verify(i) ==
    /\ ex[i].pc = "verify"
    /\ \E v \in VerifyOutcomes : SetFrame(i, ArchiveVerify(ex[i], v, conf.has_queue))
    /\ UNCHANGED <<uploads, mq, unfinished>>
    /\ UNCHANGED aaOthers

\* metadata_queue.put succeeds: there is room (now, or within the timeout)
AA_Put(i) ==
    /\ ex[i].pc = "enqueue"
    /\ ~QueueFull(mq)
    /\ mq' = Append(mq, TaskOf(ex[i]))
    /\ unfinished' = unfinished + 1
    /\ SetFrame(i, [ex[i] EXCEPT !.pc = "record", !.enq = "queued"])
    /\ hist' = [hist EXCEPT !.accepted = Logged(hist.accepted, TaskOf(ex[i]))]
    /\ UNCHANGED <<disc, bf_first, rows0, uploads, conf, orch, cons, meta, progress, up, vfy, cat>>

\* metadata_queue.put raises queue.Full after the timeout: the task is dropped
AA_PutTimeout(i) ==
    /\ ex[i].pc = "enqueue"
    /\ PutTimesOut(mq)
    /\ SetFrame(i, [ex[i] EXCEPT !.pc = "record", !.enq = "dropped"])
    /\ UNCHANGED <<uploads, mq, unfinished>>
    /\ UNCHANGED aaOthers

\* lines 129-130: db.record_upload(url, bucket, key, title); return True
AA_Record(i) ==
    /\ ex[i].pc = "record"
    /\ \E err \in LedgerErrors :
          /\ uploads' = IF err THEN uploads
                        ELSE RecordUpload(uploads, ex[i].url, ex[i].bucket, ex[i].key,
                                          ex[i].title)
          /\ SetFrame(i, ArchiveRecord(ex[i], err))
    /\ UNCHANGED <<mq, unfinished>>
    /\ UNCHANGED aaOthers

AA_Step(i) ==
    \/ AA_Start(i)
    \/ AA_Fetch(i, ArticleResponses)
    \/ AA_Upload(i)
    \/ AA_Verify(i)
    \/ AA_Put(i)
    \/ AA_PutTimeout(i)
    \/ AA_Record(i)

(***************************************************************************)
(* Discovery action                                                        *)
(***************************************************************************)
\* one request of the index page inside _discover_from_index, answered from R
D_Fetch(R) ==
    /\ disc.pc = "fetch"
    /\ \E r \in R : disc' = DiscoverAttempt(disc, r)

(***************************************************************************)
(* Orchestrator, pool and consumer actions                                 *)
(***************************************************************************)
\* line 395: the outer while loop tests its condition and fills a batch
O_Batch ==
    /\ orch.pc = "while"
    /\ orch' =
         IF orch.current_date <= orch.end_date
         THEN LET b == BatchLoop(<<>>, orch.current_date, orch.end_date)
              IN  [orch EXCEPT !.pc = "for", !.dates_to_process = b.dates_to_process,
                               !.batch_end_date = b.batch_end_date, !.di = 1,
                               !.total_dates_processed =
                                    orch.total_dates_processed + Len(b.dates_to_process)]
         ELSE [orch EXCEPT !.pc = "sentinel"]
    /\ UNCHANGED <<disc, bf_first, rows0, uploads, mq, unfinished, ex, conf, cons, meta, progress, up, vfy, cat, hist>>

\* line 405-411: the for loop takes the next date and calls get_article_urls;
\* after the last date of the batch, line 452
O_NextDate ==
    /\ orch.pc = "for"
    /\ IF orch.di <= Len(orch.dates_to_process)
       THEN /\ orch' = [orch EXCEPT !.pc = "discover",
                                    !.current_date = orch.dates_to_process[orch.di],
                                    !.processed = Append(orch.processed,
                                                         orch.dates_to_process[orch.di])]
            /\ disc' = DiscCall(orch.dates_to_process[orch.di])
       ELSE /\ orch' = [orch EXCEPT !.pc = "while", !.current_date = orch.batch_end_date]
            /\ UNCHANGED disc
    /\ UNCHANGED <<bf_first, rows0, uploads, mq, unfinished, ex, conf, cons, meta, progress, up, vfy, cat, hist>>

\* the index page is requested
O_IndexFetch ==
    /\ orch.pc = "discover"
    /\ D_Fetch(SiteIndexResponses(disc.date))
    /\ UNCHANGED <<bf_first, rows0, uploads, mq, unfinished, ex, conf, orch, cons, meta, progress, up, vfy, cat, hist>>

\* lines 411-426: the list returns; Ledger snapshot, filter, submit.  When
\* db.get_archived_urls() raises (line 412) nothing in main() catches it
O_Dispatch ==
    /\ orch.pc = "discover"
    /\ disc.pc = "ret"
    /\ \E err \in LedgerErrors :
          IF err
          THEN /\ orch' = [orch EXCEPT !.pc = "aborted"]
               /\ ex' = ex
          ELSE LET urls_to_process == UrlsToProcess(disc.urls, GetArchivedUrls(uploads))
               IN  /\ orch' = [orch EXCEPT !.urls_to_process = urls_to_process, !.count = 0,
                                   !.collected = {},
                                   !.dispatched = orch.dispatched \o urls_to_process,
                                   !.pc = IF urls_to_process # <<>> THEN "pool" ELSE "track"]
                   /\ ex' = Submit(urls_to_process, BucketId(orch.current_date))
    /\ disc' = DiscIdle
    /\ UNCHANGED <<bf_first, rows0, uploads, mq, unfinished, conf, cons, meta, progress, up, vfy, cat, hist>>

\* a worker thread of the pool starts the oldest pending call
W_Take(i) ==
    /\ CanStart(ex, i)
    /\ SetFrame(i, FrameCall(ex[i].url, ex[i].bucket))
    /\ UNCHANGED <<uploads, mq, unfinished>>
    /\ UNCHANGED aaOthers

\* archive_article returns: the future holds the result
W_Finish(i) ==
    /\ ex[i].pc = "ret"
    /\ SetFrame(i, FrameOf("finished", ex[i].result))
    /\ UNCHANGED <<uploads, mq, unfinished>>
    /\ UNCHANGED aaOthers

\* lines 428-430: as_completed yields a finished future; future.result()
\* returns the call's value or re-raises its exception, which leaves the loop
O_Collect(i) ==
    /\ orch.pc = "pool"
    /\ ex[i].pc = "finished"
    /\ i \notin orch.collected
    /\ orch' = [orch EXCEPT !.collected = orch.collected \cup {i},
                            !.count = IF ex[i].result = "True" THEN orch.count + 1
                                      ELSE orch.count,
                            !.pc = IF ex[i].result = "raise" THEN "unwind" ELSE "pool"]
    /\ UNCHANGED <<disc, bf_first, rows0, uploads, mq, unfinished, ex, conf, cons, meta, progress, up, vfy, cat, hist>>

\* the with block ends: normally, or with the exception of future.result()
\* once the executor has run and joined every submitted call; nothing in
\* main() catches the exception
O_PoolExit ==
    /\ \/ orch.pc = "pool" /\ PoolDone(ex, orch.collected)
       \/ orch.pc = "unwind" /\ PoolJoined(ex)
    /\ orch' = [orch EXCEPT !.pc = IF orch.pc = "unwind" THEN "aborted" ELSE "track"]
    /\ UNCHANGED <<disc, bf_first, rows0, uploads, mq, unfinished, ex, conf, cons, meta, progress, up, vfy, cat, hist>>

\* lines 432-450: the date's keys are added to articles_by_month
O_Track ==
    /\ orch.pc = "track"
    /\ orch' = [orch EXCEPT !.pc = "for", !.di = orch.di + 1,
                            !.articles_by_month =
                                TrackArticles(orch.articles_by_month,
                                              BucketId(orch.current_date),
                                              DateStr(orch.current_date),
                                              orch.urls_to_process)]
    /\ UNCHANGED <<disc, bf_first, rows0, uploads, mq, unfinished, ex, conf, cons, meta, progress, up, vfy, cat, hist>>

\* line 458: metadata_queue.put(None) blocks until there is room
O_Sentinel ==
    /\ orch.pc = "sentinel"
    /\ ~QueueFull(mq)
    /\ mq' = Append(mq, Sentinel)
    /\ unfinished' = unfinished + 1
    /\ orch' = [orch EXCEPT !.pc = "qjoin"]
    /\ UNCHANGED <<disc, bf_first, rows0, uploads, ex, conf, cons, meta, progress, up, vfy, cat, hist>>

\* line 459: metadata_queue.join() returns when every item is task_done
O_QueueJoin ==
    /\ orch.pc = "qjoin"
    /\ unfinished = 0
    /\ orch' = [orch EXCEPT !.pc = "tjoin"]
    /\ UNCHANGED <<disc, bf_first, rows0, uploads, mq, unfinished, ex, conf, cons, meta, progress, up, vfy, cat, hist>>

\* lines 460-465: metadata_thread.join(timeout=60) returns, the thread having
\* exited or not
O_ThreadJoin ==
    /\ orch.pc = "tjoin"
    /\ orch' = [orch EXCEPT !.pc = "index", !.ii = 1, !.alive = (cons.pc # "exited")]
    /\ UNCHANGED <<disc, bf_first, rows0, uploads, mq, unfinished, ex, conf, cons, meta, progress, up, vfy, cat, hist>>

\* lines 468-479: index.html is generated and uploaded for the next bucket
O_Index ==
    /\ orch.pc = "index"
    /\ IF orch.ii <= Len(orch.articles_by_month)
       THEN \E o \in UploadFileOutcomes :
               orch' = [orch EXCEPT !.ii = orch.ii + 1,
                           !.indexes = IF orch.articles_by_month[orch.ii].v # <<>>
                                       THEN Append(orch.indexes, orch.articles_by_month[orch.ii])
                                       ELSE orch.indexes]
       ELSE orch' = [orch EXCEPT !.pc = "done"]
    /\ UNCHANGED <<disc, bf_first, rows0, uploads, mq, unfinished, ex, conf, cons, meta, progress, up, vfy, cat, hist>>

\* lines 354-357: q.get() returns an item; the sentinel ends the thread
C_Get ==
    /\ cons.pc = "get"
    /\ mq # <<>>
    /\ mq' = Tail(mq)
    /\ cons' = [cons EXCEPT !.pc = WorkerNext(Head(mq)), !.item = Head(mq)]
    /\ unfinished' = IF WorkerNext(Head(mq)) = "exited" THEN unfinished - 1  \* task_done
                     ELSE unfinished
    /\ UNCHANGED <<disc, bf_first, rows0, uploads, ex, conf, orch, meta, progress, up, vfy, cat, hist>>

\* lines 359-365: update_file_metadata on the item, then q.task_done()
C_Update ==
    /\ cons.pc = "update"
    /\ \E o \in UpdateFileMetadataOutcomes \cup {EscapedError} :
          /\ cons' = [cons EXCEPT !.pc = WorkerApply(o)]
          /\ hist' = [hist EXCEPT !.applied = Logged(hist.applied, cons.item),
                                  !.errors = IF o.raised THEN Logged(hist.errors, cons.item)
                                             ELSE hist.errors]
    /\ unfinished' = unfinished - 1
    /\ UNCHANGED <<disc, bf_first, rows0, uploads, mq, ex, conf, orch, meta, progress, up, vfy, cat>>

(***************************************************************************)
(* Spec: a run of main() over a date range                                 *)
(***************************************************************************)
\* main() starts on a date range taken from S x E with a configuration of C
InitMain(S, E, C) ==
    /\ disc = DiscIdle
    /\ bf_first = [n \in Days |-> None]
    /\ rows0 = {}
    /\ uploads = {}
    /\ mq = <<>>
    /\ unfinished = 0
    /\ ex = <<>>
    /\ conf \in C
    /\ \E s \in S, e \in E : orch = OrchInit(s, e)
    /\ cons = ConsInit
    /\ meta = MetaIdle
    /\ progress = NoProgress
    /\ up = UpIdle
    /\ vfy = VfIdle
    /\ cat = CatIdle
    /\ hist = NoHist

Init ==
    InitMain(Days, Days,
             [verify_upload : BOOLEAN, max_retries : {MAX_RETRIES_PER_ARTICLE},
              has_queue : {TRUE}, trace : {FALSE}, faults : {FALSE}])

Next ==
    \/ O_Batch
    \/ O_NextDate
    \/ O_IndexFetch
    \/ O_Dispatch
    \/ \E i \in DOMAIN ex : W_Take(i)
    \/ \E i \in DOMAIN ex : AA_Start(i)
    \/ \E i \in DOMAIN ex : AA_Fetch(i, SiteResponses)
    \/ \E i \in DOMAIN ex : AA_Upload(i)
    \/ \E i \in DOMAIN ex : AA_Verify(i)
    \/ \E i \in DOMAIN ex : AA_Put(i)
    \/ \E i \in DOMAIN ex : AA_PutTimeout(i)
    \/ \E i \in DOMAIN ex : AA_Record(i)
    \/ \E i \in DOMAIN ex : W_Finish(i)
    \/ \E i \in DOMAIN ex : O_Collect(i)
    \/ O_PoolExit
    \/ O_Track
    \/ O_Sentinel
    \/ O_QueueJoin
    \/ O_ThreadJoin
    \/ O_Index
    \/ C_Get
    \/ C_Update

Spec == Init /\ [][Next]_vars

(***************************************************************************)
(* SpecTrace: a run of main() over the first date, the channel's history   *)
(* being kept                                                              *)
(***************************************************************************)
InitTrace ==
    InitMain({0}, {0},
             [verify_upload : BOOLEAN, max_retries : {MAX_RETRIES_PER_ARTICLE},
              has_queue : {TRUE}, trace : {TRUE}, faults : {FALSE}])

SpecTrace == InitTrace /\ [][Next]_vars

(***************************************************************************)
(* SpecRerun: a run of main() over the first date on the Ledger an earlier *)
(* run over that date has left                                             *)
(***************************************************************************)
\* the URLs discovery returns for the first date
FirstDateUrls ==
    LET urls == DiscoverAttempt(DiscCall(0), Resp(200, SiteIndexPage(0))).urls
    IN  {urls[k] : k \in 1..Len(urls)}

\* the Ledgers of an earlier run: any of the date's URLs recorded
EarlierLedgers ==
    { {UploadRow(u, BucketId(0), KeyOf(u), "Headline Text") : u \in U}
      : U \in SUBSET FirstDateUrls }

InitRerun ==
    /\ disc = DiscIdle
    /\ bf_first = [n \in Days |-> None]
    /\ uploads \in EarlierLedgers
    /\ rows0 = uploads
    /\ mq = <<>>
    /\ unfinished = 0
    /\ ex = <<>>
    /\ conf \in [verify_upload : BOOLEAN, max_retries : {MAX_RETRIES_PER_ARTICLE},
                 has_queue : {TRUE}, trace : {FALSE}, faults : {FALSE}]
    /\ orch = OrchInit(0, 0)
    /\ cons = ConsInit
    /\ meta = MetaIdle
    /\ progress = NoProgress
    /\ up = UpIdle
    /\ vfy = VfIdle
    /\ cat = CatIdle
    /\ hist = NoHist

SpecRerun == InitRerun /\ [][Next]_vars

(***************************************************************************)
(* SpecFaults: a run of main() over the first two dates while calls on the *)
(* Ledger may raise                                                        *)
(***************************************************************************)
InitFaults ==
    InitMain({0}, {1},
             [verify_upload : BOOLEAN, max_retries : {MAX_RETRIES_PER_ARTICLE},
              has_queue : {TRUE}, trace : {FALSE}, faults : {TRUE}])

SpecFaults == InitFaults /\ [][Next]_vars

\* the steps of the threads other than the answer to a request of the index
\* page
ThreadStep ==
    \/ O_Batch
    \/ O_NextDate
    \/ O_Dispatch
    \/ \E i \in DOMAIN ex : W_Take(i)
    \/ \E i \in DOMAIN ex : AA_Start(i)
    \/ \E i \in DOMAIN ex : AA_Fetch(i, SiteResponses)
    \/ \E i \in DOMAIN ex : AA_Upload(i)
    \/ \E i \in DOMAIN ex : AA_Verify(i)
    \/ \E i \in DOMAIN ex : AA_Put(i)
    \/ \E i \in DOMAIN ex : AA_PutTimeout(i)
    \/ \E i \in DOMAIN ex : AA_Record(i)
    \/ \E i \in DOMAIN ex : W_Finish(i)
    \/ \E i \in DOMAIN ex : O_Collect(i)
    \/ O_PoolExit
    \/ O_Track
    \/ O_Sentinel
    \/ O_QueueJoin
    \/ O_ThreadJoin
    \/ O_Index
    \/ C_Get
    \/ C_Update

\* a thread that can take a step is scheduled eventually (every thread's
\* steps are bounded in number, so none can keep the others from running),
\* and a request of the index page is answered or times out: timeout=10
FairSpecFaults == SpecFaults /\ WF_vars(ThreadStep) /\ []<>(disc.pc # "fetch")

(***************************************************************************)
(* SpecDiscovery: get_article_urls called for any date, any site answer    *)
(***************************************************************************)
InitConf ==
    [verify_upload |-> FALSE, max_retries |-> 0, has_queue |-> FALSE,
     trace |-> FALSE, faults |-> FALSE]

\* a caller invokes get_article_urls(date)
H_GetArticleUrls ==
    /\ disc.pc = "idle"
    /\ \E n \in Days : disc' = DiscCall(n)
    /\ UNCHANGED <<bf_first, rows0, uploads, mq, unfinished, ex, conf, orch, cons, meta, progress, up, vfy, cat, hist>>

H_IndexFetch ==
    /\ D_Fetch(IndexResponses(disc.date))
    /\ UNCHANGED <<bf_first, rows0, uploads, mq, unfinished, ex, conf, orch, cons, meta, progress, up, vfy, cat, hist>>

\* the caller takes the returned list
H_TakeUrls ==
    /\ disc.pc = "ret"
    /\ disc' = DiscIdle
    /\ bf_first' = IF disc.index_urls = <<>> /\ bf_first[disc.date] = None
                   THEN [bf_first EXCEPT ![disc.date] = disc.urls]
                   ELSE bf_first
    /\ UNCHANGED <<rows0, uploads, mq, unfinished, ex, conf, orch, cons, meta, progress, up, vfy, cat, hist>>

InitDiscovery ==
    /\ disc = DiscIdle
    /\ bf_first = [n \in Days |-> None]
    /\ rows0 = {}
    /\ uploads = {}
    /\ mq = <<>>
    /\ unfinished = 0
    /\ ex = <<>>
    /\ conf = InitConf
    /\ orch = OrchInit(0, 0)
    /\ cons = ConsInit
    /\ meta = MetaIdle
    /\ progress = NoProgress
    /\ up = UpIdle
    /\ vfy = VfIdle
    /\ cat = CatIdle
    /\ hist = NoHist

NextDiscovery ==
    \/ H_GetArticleUrls
    \/ H_IndexFetch
    \/ H_TakeUrls

SpecDiscovery == InitDiscovery /\ [][NextDiscovery]_vars

(***************************************************************************)
(* SpecArchive: archive_article called in sequence on a few URLs, with     *)
(* every configuration, while the metadata queue may or may not be drained *)
(***************************************************************************)
\* the URLs the harness archives: two brute-force candidates of the first date
HarnessUrls == {GenerateBruteforce(0)[1], GenerateBruteforce(0)[Len(BruteforceNums) + 2]}

H_Call ==
    /\ ex[1].pc = "idle"
    /\ \E u \in HarnessUrls : SetFrame(1, FrameCall(u, BucketId(0)))
    /\ rows0' = uploads
    /\ UNCHANGED <<disc, bf_first, uploads, mq, unfinished, conf, orch, cons, meta, progress, up, vfy, cat, hist>>

\* the caller takes the result
H_Return ==
    /\ ex[1].pc = "ret"
    /\ SetFrame(1, FrameOf("idle", ex[1].result))
    /\ UNCHANGED <<uploads, mq, unfinished>>
    /\ UNCHANGED aaOthers

\* a consumer takes the oldest item off the queue (q.get(), q.task_done())
H_Drain ==
    /\ mq # <<>>
    /\ mq' = Tail(mq)
    /\ unfinished' = unfinished - 1
    /\ UNCHANGED <<uploads, ex>>
    /\ UNCHANGED aaOthers

\* F: whether calls on the Ledger may raise
InitArchiveConf(F) ==
    /\ disc = DiscIdle
    /\ bf_first = [n \in Days |-> None]
    /\ rows0 = {}
    /\ uploads = {}
    /\ mq = <<>>
    /\ unfinished = 0
    /\ ex = <<FrameOf("idle", "-")>>
    /\ conf \in [verify_upload : BOOLEAN, max_retries : 0..MaxRetries, has_queue : BOOLEAN,
                 trace : {FALSE}, faults : F]
    /\ orch = OrchInit(0, 0)
    /\ cons = ConsInit
    /\ meta = MetaIdle
    /\ progress = NoProgress
    /\ up = UpIdle
    /\ vfy = VfIdle
    /\ cat = CatIdle
    /\ hist = NoHist

InitArchive == InitArchiveConf({FALSE})

NextArchive ==
    \/ H_Call
    \/ AA_Start(1)
    \/ AA_Fetch(1, ArticleResponses)
    \/ AA_Upload(1)
    \/ AA_Verify(1)
    \/ AA_Put(1)
    \/ AA_PutTimeout(1)
    \/ AA_Record(1)
    \/ H_Return
    \/ H_Drain

SpecArchive == InitArchive /\ [][NextArchive]_vars

\* archive_article's own steps are taken eventually; nothing obliges a
\* consumer to drain the queue
FairSpecArchive == SpecArchive /\ WF_vars(AA_Step(1))

\* the same calls while calls on the Ledger may raise
InitArchiveFaults == InitArchiveConf({TRUE})

SpecArchiveFaults == InitArchiveFaults /\ [][NextArchive]_vars

(***************************************************************************)
(* SpecMeta: update_file_metadata called on any task, any answer           *)
(***************************************************************************)
MetaTitles == {"", "Headline Text", "Second Headline"}
MetaFiles == {KeyOf(u) : u \in HarnessUrls}
MetaBuckets == {BucketId(n) : n \in Days}

M_Call ==
    /\ meta.pc = "idle"
    /\ \E b \in MetaBuckets, f \in MetaFiles, t \in MetaTitles : meta' = MetaCall(b, f, t)
    /\ UNCHANGED <<disc, bf_first, rows0, uploads, mq, unfinished, ex, conf, orch, cons, progress, up, vfy, cat, hist>>

\* one POST of the patch
M_Request ==
    /\ meta.pc = "request"
    /\ \E r \in PatchResponses : meta' = UpdateAttempt(meta, r)
    /\ UNCHANGED <<disc, bf_first, rows0, uploads, mq, unfinished, ex, conf, orch, cons, progress, up, vfy, cat, hist>>

\* the caller takes the result
M_Return ==
    /\ meta.pc = "ret"
    /\ meta' = MetaIdle
    /\ UNCHANGED <<disc, bf_first, rows0, uploads, mq, unfinished, ex, conf, orch, cons, progress, up, vfy, cat, hist>>

InitMeta ==
    /\ disc = DiscIdle
    /\ bf_first = [n \in Days |-> None]
    /\ rows0 = {}
    /\ uploads = {}
    /\ mq = <<>>
    /\ unfinished = 0
    /\ ex = <<>>
    /\ conf = InitConf
    /\ orch = OrchInit(0, 0)
    /\ cons = ConsInit
    /\ meta = MetaIdle
    /\ progress = NoProgress
    /\ up = UpIdle
    /\ vfy = VfIdle
    /\ cat = CatIdle
    /\ hist = NoHist

NextMeta ==
    \/ M_Call
    \/ M_Request
    \/ M_Return

SpecMeta == InitMeta /\ [][NextMeta]_vars

(***************************************************************************)
(* SpecLedger: calls on the Ledger in any order with any arguments         *)
(***************************************************************************)
\* largest number of record_upload calls of the harness
MaxWrites == 3

\* db.record_upload(url, bucket, key, title)
L_RecordUpload ==
    /\ Len(hist.written) < MaxWrites
    /\ \E u \in HarnessUrls, b \in MetaBuckets, t \in MetaTitles :
          /\ uploads' = RecordUpload(uploads, u, b, KeyOf(u), t)
          /\ hist' = [hist EXCEPT !.written = Append(hist.written, UploadRow(u, b, KeyOf(u), t))]
    /\ rows0' = uploads
    /\ UNCHANGED <<disc, bf_first, mq, unfinished, ex, conf, orch, cons, meta, progress, up, vfy, cat>>

\* db.set_last_processed_date(date_str)
L_SetLastProcessedDate ==
    /\ \E n \in Days : progress' = SetLastProcessedDate(progress, DateStr(n))
    /\ UNCHANGED <<disc, bf_first, rows0, uploads, mq, unfinished, ex, conf, orch, cons, meta, up, vfy, cat, hist>>

InitLedger ==
    /\ disc = DiscIdle
    /\ bf_first = [n \in Days |-> None]
    /\ rows0 = {}
    /\ uploads = {}
    /\ mq = <<>>
    /\ unfinished = 0
    /\ ex = <<>>
    /\ conf = InitConf
    /\ orch = OrchInit(0, 0)
    /\ cons = ConsInit
    /\ meta = MetaIdle
    /\ progress = NoProgress
    /\ up = UpIdle
    /\ vfy = VfIdle
    /\ cat = CatIdle
    /\ hist = NoHist

NextLedger ==
    \/ L_RecordUpload
    \/ L_SetLastProcessedDate

SpecLedger == InitLedger /\ [][NextLedger]_vars

(***************************************************************************)
(* SpecUpload: upload_file called with any bucket text and retry budget,   *)
(* any answer of the store                                                 *)
(***************************************************************************)
\* longest bucket text passed to upload_file
MaxLen == 3

\* the characters of the bucket texts: an upper-case and a lower-case letter,
\* a digit, the two allowed signs, and three characters that are not allowed
BucketChars == {"A", "b", "7", "-", ".", "_", " ", "~"}

BucketTexts == UNION {[1..n -> BucketChars] : n \in 0..MaxLen}

U_Call ==
    /\ up.pc = "idle"
    /\ \E b \in BucketTexts, n \in 0..MaxRetries : up' = UploadCall(b, n)
    /\ UNCHANGED <<disc, bf_first, rows0, uploads, mq, unfinished, ex, conf, orch, cons, meta, progress, vfy, cat, hist>>

\* one PUT
U_Request ==
    /\ up.pc = "request"
    /\ \E r \in UploadResponses : up' = UploadAttempt(up, r)
    /\ UNCHANGED <<disc, bf_first, rows0, uploads, mq, unfinished, ex, conf, orch, cons, meta, progress, vfy, cat, hist>>

\* the caller takes the result
U_Return ==
    /\ up.pc = "ret"
    /\ up' = UpIdle
    /\ UNCHANGED <<disc, bf_first, rows0, uploads, mq, unfinished, ex, conf, orch, cons, meta, progress, vfy, cat, hist>>

InitUpload ==
    /\ disc = DiscIdle
    /\ bf_first = [n \in Days |-> None]
    /\ rows0 = {}
    /\ uploads = {}
    /\ mq = <<>>
    /\ unfinished = 0
    /\ ex = <<>>
    /\ conf = InitConf
    /\ orch = OrchInit(0, 0)
    /\ cons = ConsInit
    /\ meta = MetaIdle
    /\ progress = NoProgress
    /\ up = UpIdle
    /\ vfy = VfIdle
    /\ cat = CatIdle
    /\ hist = NoHist

NextUpload ==
    \/ U_Call
    \/ U_Request
    \/ U_Return

SpecUpload == InitUpload /\ [][NextUpload]_vars

(***************************************************************************)
(* SpecDates: the date loop of main() over ranges longer than a batch, the *)
(* work on one date taken as one step                                      *)
(***************************************************************************)
\* the last day offset of a range
MaxSpan == 31

\* lines 411-450 for the current date: they leave the loop's variables alone
H_DateDone ==
    /\ orch.pc = "discover"
    /\ orch' = [orch EXCEPT !.pc = "for", !.di = orch.di + 1]
    /\ disc' = DiscIdle
    /\ UNCHANGED <<bf_first, rows0, uploads, mq, unfinished, ex, conf, cons, meta, progress, up, vfy, cat, hist>>

InitDates ==
    /\ disc = DiscIdle
    /\ bf_first = [n \in Days |-> None]
    /\ rows0 = {}
    /\ uploads = {}
    /\ mq = <<>>
    /\ unfinished = 0
    /\ ex = <<>>
    /\ conf = InitConf
    /\ \E s \in 0..MaxSpan, e \in 0..MaxSpan : orch = OrchInit(s, e)
    /\ cons = ConsInit
    /\ meta = MetaIdle
    /\ progress = NoProgress
    /\ up = UpIdle
    /\ vfy = VfIdle
    /\ cat = CatIdle
    /\ hist = NoHist

NextDates ==
    \/ O_Batch
    \/ O_NextDate
    \/ H_DateDone

SpecDates == InitDates /\ [][NextDates]_vars

\* the main thread keeps running
FairSpecDates == SpecDates /\ WF_vars(NextDates)

(***************************************************************************)
(* SpecVerify: verify_file_uploaded called with any poll budget, any       *)
(* answer of the metadata endpoint                                         *)
(***************************************************************************)
V_Call ==
    /\ vfy.pc = "idle"
    /\ \E n \in 0..VERIFY_MAX_RETRIES : vfy' = VerifyCall(n)
    /\ UNCHANGED <<disc, bf_first, rows0, uploads, mq, unfinished, ex, conf, orch, cons, meta, progress, up, cat, hist>>

\* one GET of the metadata endpoint
V_Poll ==
    /\ vfy.pc = "poll"
    /\ \E r \in VerifyResponses : vfy' = VerifyAttempt(vfy, r)
    /\ UNCHANGED <<disc, bf_first, rows0, uploads, mq, unfinished, ex, conf, orch, cons, meta, progress, up, cat, hist>>

\* the caller takes the result
V_Return ==
    /\ vfy.pc = "ret"
    /\ vfy' = VfIdle
    /\ UNCHANGED <<disc, bf_first, rows0, uploads, mq, unfinished, ex, conf, orch, cons, meta, progress, up, cat, hist>>

InitVerify ==
    /\ disc = DiscIdle
    /\ bf_first = [n \in Days |-> None]
    /\ rows0 = {}
    /\ uploads = {}
    /\ mq = <<>>
    /\ unfinished = 0
    /\ ex = <<>>
    /\ conf = InitConf
    /\ orch = OrchInit(0, 0)
    /\ cons = ConsInit
    /\ meta = MetaIdle
    /\ progress = NoProgress
    /\ up = UpIdle
    /\ vfy = VfIdle
    /\ cat = CatIdle
    /\ hist = NoHist

NextVerify ==
    \/ V_Call
    \/ V_Poll
    \/ V_Return

SpecVerify == InitVerify /\ [][NextVerify]_vars

(***************************************************************************)
(* SpecCatchup: catchup_metadata called on a Ledger of earlier runs while  *)
(* the consumer thread runs                                                *)
(***************************************************************************)
\* the Ledgers the scan runs on: any of the harness URLs recorded, with or
\* without a title
CatchupLedgers ==
    { {UploadRow(u, BucketId(0), KeyOf(u), t[u]) : u \in U}
      : <<U, t>> \in (SUBSET HarnessUrls) \X [HarnessUrls -> {None, "Headline Text"}] }

\* answers to the request of a bucket's listing
CatListings ==
    LET keys == Sorted({KeyOf(u) : u \in HarnessUrls}) IN
    { [kind |-> "exc", files |-> <<>>], [kind |-> "non200", files |-> <<>>],
      [kind |-> "no_files", files |-> <<>>],
      [kind |-> "files", files |-> <<S_METADATA_TXT, keys[1], keys[2], S_INDEX_HTML>>],
      [kind |-> "files", files |-> <<keys[2], <<>>, keys[1]>>] }

K_Call ==
    /\ cat.pc = "idle"
    /\ \E s \in Days, e \in Days : cat' = CatCall(s, e)
    /\ UNCHANGED <<disc, bf_first, rows0, uploads, mq, unfinished, ex, conf, orch, cons, meta, progress, up, vfy, hist>>

\* the listing of the current bucket is requested
K_List ==
    /\ cat.pc = "list"
    /\ \E r \in CatListings : cat' = CatListing(cat, r)
    /\ UNCHANGED <<disc, bf_first, rows0, uploads, mq, unfinished, ex, conf, orch, cons, meta, progress, up, vfy, hist>>

\* the current file of the listing is looked up and its task put
K_File ==
    /\ cat.pc = "file"
    /\ cat' = CatFile(cat, uploads, QueueFull(mq))
    /\ IF Len(cat'.puts) > Len(cat.puts)
       THEN /\ mq' = Append(mq, CatTask(cat, uploads))
            /\ unfinished' = unfinished + 1
       ELSE UNCHANGED <<mq, unfinished>>
    /\ UNCHANGED <<disc, bf_first, rows0, uploads, ex, conf, orch, cons, meta, progress, up, vfy, hist>>

\* main() takes the count: line 382
K_Return ==
    /\ cat.pc = "ret"
    /\ cat' = CatIdle
    /\ UNCHANGED <<disc, bf_first, rows0, uploads, mq, unfinished, ex, conf, orch, cons, meta, progress, up, vfy, hist>>

InitCatchup ==
    /\ disc = DiscIdle
    /\ bf_first = [n \in Days |-> None]
    /\ uploads \in CatchupLedgers
    /\ rows0 = uploads
    /\ mq = <<>>
    /\ unfinished = 0
    /\ ex = <<>>
    /\ conf = InitConf
    /\ orch = OrchInit(0, 0)
    /\ cons = ConsInit
    /\ meta = MetaIdle
    /\ progress = NoProgress
    /\ up = UpIdle
    /\ vfy = VfIdle
    /\ cat = CatIdle
    /\ hist = NoHist

NextCatchup ==
    \/ K_Call
    \/ K_List
    \/ K_File
    \/ K_Return
    \/ C_Get
    \/ C_Update

SpecCatchup == InitCatchup /\ [][NextCatchup]_vars

(***************************************************************************)
(* Claims                                                                  *)
(***************************************************************************)
\* the last index response was a transient failure: a raised error or a
\* status that is neither 200 nor 404 nor a redirect
DiscLastTransient ==
    /\ disc.fetches > 0
    /\ \/ disc.last_exc
       \/ disc.last_status \notin {200, 404, 301, 302, 303, 307, 308}

\* C7: whenever index discovery yields no URL, get_article_urls returns the
\* brute-force list: non-empty, 41 x 8 = 328 URLs of the date, strictly
\* ascending in code-point order (hence duplicate-free), and equal to the
\* list returned by every earlier call for the same date.
C7_FallbackComplete ==
    (disc.pc = "ret" /\ disc.index_urls = <<>>) =>
        /\ disc.urls # <<>>
        /\ Len(HK_GA_PREFIXES) = 41
        /\ Len(disc.urls) = Len(HK_GA_PREFIXES) * 8
        /\ Len(disc.urls) = 328
        /\ \A i \in 1..(Len(disc.urls) - 1) : StrLess(disc.urls[i], disc.urls[i + 1])
        /\ Cardinality({disc.urls[i] : i \in 1..Len(disc.urls)}) = Len(disc.urls)
        /\ \A i \in 1..Len(disc.urls) :
              StartsAt(disc.urls[i], 1, BASE_URL \o S_HTM_NEWS \o DateStr(disc.date) \o S_HK)
        /\ bf_first[disc.date] # None => disc.urls = bf_first[disc.date]

\* C7 witness: a second call for a date whose index page answers 200 without
\* any article link returns the fallback list
C7_Witness ==
    /\ disc.pc = "ret" /\ disc.index_urls = <<>>
    /\ ~disc.last_exc /\ disc.last_status = 200
    /\ bf_first[disc.date] # None
    /\ Len(disc.urls) = 328

\* C8: no exception escapes _discover_from_index; a 404 or redirect ends it
\* at that response with an empty result; a transient failure is retried,
\* the index being fetched at most max_retries + 1 times, and when the last
\* attempt fails too the result is empty; an empty result always leads
\* get_article_urls to the brute-force list.
C8_DiscoveryNeverAborts ==
    /\ ~disc.raised
    /\ disc.fetches <= DISCOVER_MAX_RETRIES + 1
    /\ (disc.fetches > 0 /\ ~disc.last_exc
            /\ disc.last_status \in {404, 301, 302, 303, 307, 308})
         => (disc.pc = "ret" /\ disc.index_urls = <<>>)
    /\ (disc.pc = "fetch" /\ disc.fetches > 0)
         => (DiscLastTransient /\ disc.attempt = disc.fetches
              /\ disc.fetches <= DISCOVER_MAX_RETRIES)
    /\ (disc.pc = "ret" /\ DiscLastTransient)
         => (disc.fetches = DISCOVER_MAX_RETRIES + 1 /\ disc.index_urls = <<>>)
    /\ (disc.pc = "ret" /\ disc.index_urls = <<>>)
         => (disc.urls # <<>> /\ Len(disc.urls) = Len(HK_GA_PREFIXES) * Len(BruteforceNums))

\* C8 witness: every attempt failed transiently, the last one by a raised
\* error, and the call still returned the fallback list
C8_Witness ==
    /\ disc.pc = "ret" /\ disc.last_exc
    /\ disc.fetches = DISCOVER_MAX_RETRIES + 1
    /\ disc.index_urls = <<>> /\ disc.urls # <<>>


\* the call in the harness frame
Call == ex[1]

\* the Ledger recorded the URL when the call was made
Recorded == \E r \in rows0 : r.url = Call.url

\* the upload of the call was confirmed: upload_file returned success and, when
\* verification is enabled, verify_file_uploaded did too
Confirmed(f) == f.success /\ f.uploads = 1 /\ (conf.verify_upload => f.verified)

\* C1: in every execution of archive_article the Ledger write happens only
\* after upload_file returned success and, with verify_upload enabled, only
\* after verify_file_uploaded returned success too; a call whose upload or
\* verification failed writes no record for the URL.
C1_RecordOnlyAfterConfirmedUpload ==
    /\ Call.pc = "record" => Confirmed(Call)
    /\ Call.wrote => Confirmed(Call)
    /\ (Call.pc = "ret" /\ ~Recorded /\ ~Confirmed(Call)) =>
          (~Call.wrote /\ uploads = rows0 /\ ~IsArchived(uploads, Call.url))

\* a verified upload has been recorded
C1_Witness ==
    /\ Call.pc = "ret"
    /\ conf.verify_upload
    /\ Call.verified
    /\ Call.wrote
    /\ IsArchived(uploads, Call.url)

\* C2: a call of archive_article on a URL the Ledger already records issues
\* no fetch and no upload, enqueues no metadata task, returns success and
\* leaves the Ledger, the URL's record included, as it was.
C2_Idempotent ==
    (Call.pc = "ret" /\ Recorded) =>
        /\ Call.result = "True"
        /\ Call.fetches = 0
        /\ Call.uploads = 0
        /\ Call.enq = "no"
        /\ ~Call.wrote
        /\ uploads = rows0

\* a second call on a recorded URL has returned
C2_Witness ==
    /\ Call.pc = "ret"
    /\ Recorded
    /\ Call.result = "True"
    /\ \E r \in uploads : r.url = Call.url /\ r.title = "Headline Text"

\* C3: once a fetch attempt is answered 404 or 301, 302, 303, 307, 308 the
\* call has ended with a negative result: no further fetch, no upload, no
\* metadata task, nothing written to the Ledger, is_archived(url) false.
C3_RedirectAsMissing ==
    (Call.fetches > 0 /\ ~Call.last_exc /\ Call.last_status \in {404, 301, 302, 303, 307, 308}) =>
        /\ Call.pc = "ret"
        /\ Call.result = "False"
        /\ Call.uploads = 0
        /\ Call.enq = "no"
        /\ ~Call.wrote
        /\ uploads = rows0
        /\ ~IsArchived(uploads, Call.url)

\* a redirect answered the second attempt
C3_Witness ==
    /\ Call.pc = "ret"
    /\ Call.fetches = 2
    /\ ~Call.last_exc
    /\ Call.last_status = 302

\* C4: when every fetch attempt fails transiently the call fetches exactly
\* max_retries + 1 times, then returns a negative result without an upload
\* and without a Ledger mutation; before that it has fetched once per
\* iteration of the loop.
C4_RetriesExhausted ==
    /\ Call.pc = "fetch" => (Call.fetches = Call.attempt /\ Call.attempt <= conf.max_retries)
    /\ (Call.pc = "ret" /\ Call.fetches > 0 /\ Call.all_transient) =>
          /\ Call.fetches = conf.max_retries + 1
          /\ Call.result = "False"
          /\ Call.uploads = 0
          /\ ~Call.wrote
          /\ uploads = rows0
          /\ ~IsArchived(uploads, Call.url)

\* four transient failures, a status and raised errors among them, with
\* max_retries = 3
C4_Witness ==
    /\ Call.pc = "ret"
    /\ conf.max_retries = MaxRetries
    /\ Call.all_transient
    /\ Call.fetches = MaxRetries + 1
    /\ Call.last_status = 503

\* the tasks waiting in the queue
Queued == {mq[k] : k \in 1..Len(mq)}

\* C5: a call that finds the metadata queue full when it has a task to
\* enqueue, the queue staying full, still terminates; the task is dropped, the
\* record is written and the call returns success.
C5_QueueNeverBlocks ==
    /\ [](Call.enq = "dropped" =>
            /\ TaskOf(Call) \notin Queued
            /\ Call.pc \in {"record", "ret"}
            /\ Call.pc = "ret" => (Call.result = "True" /\ Call.wrote
                                   /\ IsArchived(uploads, Call.url)))
    /\ (Call.pc = "enqueue" /\ QueueFull(mq)) ~> (Call.pc = "ret")

\* a call that dropped its task has returned success
C5_Witness ==
    /\ Call.pc = "ret"
    /\ Call.enq = "dropped"
    /\ Call.result = "True"
    /\ QueueFull(mq)

\* C6: update_file_metadata returns true and lets no exception escape,
\* whatever the patch endpoint answers and whatever the request raises.
C6_MetadataNeverFails ==
    /\ ~meta.raised
    /\ meta.pc = "ret" => meta.ret

\* the call has returned after a malformed body
C6_Witness ==
    /\ meta.pc = "ret"
    /\ meta.requests = 1
    /\ meta.last_status = 200
    /\ meta.last_body = "bad_json"

\* the submitted calls that have not completed
Uncompleted == {i \in DOMAIN ex : ex[i].pc # "finished"}

\* the call in frame i was dispatched for date n
DispatchedFor(i, n) ==
    /\ ex[i].bucket = BucketId(n)
    /\ Contains(ex[i].url, S_NEWS \o DateStr(n) \o S_SLASH)

\* C9: the Orchestrator leaves the pool of a date, and so starts discovery or
\* dispatch for the next date, only when every call dispatched for the date
\* has completed; the calls in progress are all of the current date.
C9_PerDateBarrier ==
    /\ orch.pc # "pool" => Uncompleted = {}
    /\ disc.pc # "idle" => Uncompleted = {}
    /\ \A i \in Uncompleted : DispatchedFor(i, orch.current_date)

\* a call of the second date is in progress, the first date's calls done
C9_Witness ==
    /\ orch.pc = "pool"
    /\ orch.di = 2
    /\ orch.articles_by_month # <<>>
    /\ Running(ex) # {}
    /\ \A i \in Running(ex) : DispatchedFor(i, 1)

\* C10: at most MAX_WORKERS executions of archive_article are in progress,
\* however many URLs were dispatched for the date.
C10_BoundedPool == Cardinality(Running(ex)) <= MAX_WORKERS

\* MAX_WORKERS calls are in progress while a further dispatched call waits
C10_Witness ==
    /\ Cardinality(Running(ex)) = MAX_WORKERS
    /\ Len(ex) > MAX_WORKERS
    /\ \E i \in DOMAIN ex : ex[i].pc = "pending"

\* the elements of sequence q are pairwise distinct
Distinct(q) == \A i, j \in 1..Len(q) : i # j => q[i] # q[j]

\* C11: the URLs dispatched for a date are pairwise distinct and each names
\* that date, so the URL sets of different dates are disjoint and no URL is
\* dispatched twice in a run; the calls in progress are on pairwise distinct
\* URLs and no two of them are at the Ledger write for the same url.
C11_OneWorkerPerUrl ==
    /\ Distinct(orch.urls_to_process)
    /\ orch.pc \in {"pool", "track"} =>
          \A k \in 1..Len(orch.urls_to_process) :
             Contains(orch.urls_to_process[k],
                      S_NEWS \o DateStr(orch.current_date) \o S_SLASH)
    /\ Distinct(orch.dispatched)
    /\ \A i, j \in Uncompleted : i # j => ex[i].url # ex[j].url
    /\ \A i, j \in DOMAIN ex :
          (i # j /\ ex[i].pc = "record" /\ ex[j].pc = "record") => ex[i].url # ex[j].url

\* two calls of one date are at the Ledger write together
C11_Witness ==
    /\ Len(orch.dispatched) = 3
    /\ \E i, j \in DOMAIN ex : i # j /\ ex[i].pc = "record" /\ ex[j].pc = "record"

\* C12: the sentinel is enqueued only after the date loop has ended and every
\* dispatched call has completed, and it is the last item of the queue, so no
\* task is enqueued behind it; the consumer has exited exactly when the item
\* it last dequeued is the sentinel.
C12_SentinelHandshake ==
    /\ \A k \in 1..Len(mq) : mq[k] = Sentinel => k = Len(mq)
    /\ (Sentinel \in Queued \/ cons.item = Sentinel) =>
          /\ orch.pc \in {"qjoin", "tjoin", "index", "done"}
          /\ orch.current_date > orch.end_date
          /\ Uncompleted = {}
    /\ cons.pc = "exited" <=> cons.item = Sentinel

\* the consumer has exited on the sentinel after a run that dispatched calls of
\* two dates
C12_Witness ==
    /\ cons.pc = "exited"
    /\ cons.item = Sentinel
    /\ Len(orch.dispatched) > 3
    /\ mq = <<>>

\* C13: once all dates are processed the Orchestrator's waits on the
\* consumer are bounded: at the sentinel put, at the queue join and at the
\* thread join its own next step can be taken whatever the consumer does.
C13_ShutdownWaitsAreBounded ==
    orch.pc \in {"sentinel", "qjoin", "tjoin"} =>
        ENABLED (O_Sentinel \/ O_QueueJoin \/ O_ThreadJoin)

\* the tasks among the items of a queue
Tasks(q) == SelectSeq(q, LAMBDA x : x # Sentinel)

C15_FailuresAreContained ==
    /\ \A i \in DOMAIN ex :
          (ex[i].pc \in {"ret", "finished"} /\ ex[i].db_error # "no") => ex[i].result = "False"
    /\ orch.pc # "aborted"

\* C16: when record_upload raises after a successful upload, archive_article
\* returns a negative result and the Ledger holds no row for the URL, as
\* before the call: is_archived does not report it.
C16_FailedRecordLeavesNoRow ==
    (Call.pc = "ret" /\ Call.db_error = "write") =>
        /\ Call.success
        /\ Call.result = "False"
        /\ uploads = rows0
        /\ ~IsArchived(uploads, Call.url)

\* record_upload raised after an upload that was verified and whose task
\* was queued
C16_Witness ==
    /\ Call.pc = "ret"
    /\ Call.db_error = "write"
    /\ Call.verified
    /\ Call.enq = "queued"
    /\ Call.result = "False"

\* the Ledger's cursor names date n
CursorIs(n) == [key |-> "last_processed_date", value |-> DateStr(n)] \in progress

\* C17: when the batch of a date has been processed the last-processed-date
\* cursor of the Ledger names that date, and at the end of a run over a
\* non-empty range it names the end date.
C17_CursorFollowsDates ==
    /\ (orch.pc = "for" /\ orch.di > 1) => CursorIs(orch.dates_to_process[orch.di - 1])
    /\ (orch.pc = "done" /\ orch.start_date <= orch.end_date) => CursorIs(orch.end_date)

\* the row of the last record_upload call
LastWritten == hist.written[Len(hist.written)]

\* C18: the Ledger holds at most one row per url; after record_upload the
\* row of its url carries the values of that call (last write wins) and the
\* rows of every other url are as they were before the call.
C18_OneRowPerUrl ==
    /\ \A r1, r2 \in uploads : r1.url = r2.url => r1 = r2
    /\ hist.written # <<>> =>
          /\ LastWritten \in uploads
          /\ {r \in uploads : r.url # LastWritten.url} = {r \in rows0 : r.url # LastWritten.url}
    /\ \A r \in uploads : \E k \in 1..Len(hist.written) :
          /\ hist.written[k] = r
          /\ \A j \in (k + 1)..Len(hist.written) : hist.written[j].url # r.url

\* a url recorded a second time with another title while another url has a row
C18_Witness ==
    /\ Len(hist.written) = 3
    /\ Cardinality(uploads) = 2
    /\ \E r \in rows0 : r.url = LastWritten.url /\ r.title # LastWritten.title

\* C19: the text sanitize_id returns consists of the characters a-z, 0-9,
\* "-" and "." only, is empty or starts with one of a-z, 0-9, and is left
\* unchanged by sanitize_id.
C19_SanitizeId ==
    up.pc # "idle" =>
        /\ up.bucket = SanitizeId(up.bucket_arg)
        /\ \A i \in 1..Len(up.bucket) : up.bucket[i] \in IdChars
        /\ up.bucket = <<>> \/ up.bucket[1] \in AlnumChars
        /\ SanitizeId(up.bucket) = up.bucket

\* a text whose two leading characters are stripped and whose upper-case
\* letter is lowered
C19_Witness ==
    /\ up.pc # "idle"
    /\ up.bucket_arg = <<"_", ".", "A">>
    /\ up.bucket = <<"a">>

\* an answer upload_file retries: status 500 or a raised error
Retryable(r) == r.exc \/ r.status = 500

\* the answers received, continued to the length the retry loop can ask for
PaddedResps(u) ==
    [k \in 1..(u.max_retries + 1) |-> IF k <= Len(u.resps) THEN u.resps[k] ELSE RespExc]

\* C20: upload_file returns true exactly when some attempt is answered 200;
\* an answer 500 or a raised error is retried until max_retries + 1 attempts
\* have been made, then the result is false; any other status gives false at
\* once.  The call always returns a value.
C20_UploadOutcome ==
    /\ up.pc \in {"idle", "request", "ret"}
    /\ up.pc = "request" => (up.attempt = Len(up.resps) /\ up.attempt <= up.max_retries)
    /\ up.pc = "ret" =>
          LET n == Len(up.resps) IN
          /\ n \in 1..(up.max_retries + 1)
          /\ up.ret <=> \E k \in 1..n : ~up.resps[k].exc /\ up.resps[k].status = 200
          /\ \A k \in 1..(n - 1) : Retryable(up.resps[k])
          /\ (~up.ret /\ Retryable(up.resps[n])) => n = up.max_retries + 1
          /\ UploadFileLoop(PaddedResps(up), 0, up.max_retries) =
                [ret |-> up.ret, requests |-> n]

\* false after four attempts, a raised error and a 500 among them
C20_Witness ==
    /\ up.pc = "ret"
    /\ ~up.ret
    /\ up.max_retries = 3
    /\ Len(up.resps) = 4
    /\ up.resps[1].exc
    /\ ~up.resps[4].exc /\ up.resps[4].status = 500

\* C21: every retry of the article fetch after a transient failure (a raised
\* error or a 5xx status) is preceded by a wait of at least 2^attempt
\* seconds, so a call whose every attempt fails transiently has waited
\* sum(2^i, i in 0..max_retries-1) whole seconds, plus the jitter.
C21_BackoffBeforeRetry ==
    /\ (Call.pc = "fetch" /\ Call.attempt > 0) => Call.last_wait >= Pow2(Call.attempt - 1)
    /\ (Call.pc = "ret" /\ Call.all_transient /\ Call.fetches = conf.max_retries + 1) =>
          Call.slept = Pow2(conf.max_retries) - 1

\* C22: within archive_article the task of a URL is put on the queue only
\* after the URL's row has been written: when the call has queued its task
\* is_archived(url) holds, and every task in the queue carries the key of a
\* row of the Ledger.
C22_RecordBeforeEnqueue ==
    /\ Call.enq = "queued" => IsArchived(uploads, Call.url)
    /\ \A k \in 1..Len(mq) : \E r \in uploads : r.ia_key = mq[k].key

\* the keys listed in articles_by_month
IndexedKeys(abm) ==
    UNION { UNION { {abm[b].v[d].v[j] : j \in 1..Len(abm[b].v[d].v)}
                    : d \in 1..Len(abm[b].v) }
            : b \in 1..Len(abm) }

\* C23: at the end of the date loop every key listed in articles_by_month
\* is the key of a row of the Ledger; the URL of a call that returned a
\* negative result is not listed.
C23_IndexHoldsArchivedKeys ==
    orch.pc \in {"sentinel", "qjoin", "tjoin", "index", "done"} =>
        \A k \in IndexedKeys(orch.articles_by_month) : \E r \in uploads : r.ia_key = k

\* C24: a URL that was in the Ledger when the run began is in every
\* snapshot taken afterwards and is never dispatched: no call of
\* archive_article, hence no fetch and no upload, is made for it.
C24_LedgerFilter ==
    /\ \A k \in 1..Len(orch.dispatched) : ~IsArchived(rows0, orch.dispatched[k])
    /\ \A i \in DOMAIN ex : ~IsArchived(rows0, ex[i].url)
    /\ rows0 \subseteq uploads

\* the run has ended; one URL of the date was already recorded and the
\* two others were dispatched
C24_Witness ==
    /\ orch.pc = "done"
    /\ Cardinality(rows0) = 1
    /\ Len(orch.dispatched) = 2

\* the dates from a to b in ascending order
DateRange(a, b) == [k \in 1..(IF b >= a THEN b - a + 1 ELSE 0) |-> a + k - 1]

\* the dates taken so far are the first dates of the range, each once, in
\* ascending order; a batch holds at most 30 dates; when the loop has ended
\* the whole range has been taken, and nothing if start_date > end_date
DatesInOrder ==
    /\ orch.processed = SubSeq(DateRange(orch.start_date, orch.end_date), 1, Len(orch.processed))
    /\ Len(orch.dates_to_process) <= BATCH_SIZE
    /\ orch.pc = "sentinel" =>
          /\ orch.processed = DateRange(orch.start_date, orch.end_date)
          /\ orch.total_dates_processed = Len(orch.processed)

\* C25: the Orchestrator processes every date of [start_date, end_date]
\* exactly once, in ascending order, in batches of at most 30 dates, none
\* when start_date > end_date, and the date loop terminates.
C25_DateIteration == []DatesInOrder /\ <>(orch.pc = "sentinel")

\* the loop has ended after a full batch and a second batch of two dates
C25_Witness ==
    /\ orch.pc = "sentinel"
    /\ Len(orch.processed) = 32
    /\ Len(orch.dates_to_process) = 2

\* C26: verify_file_uploaded makes at most max_retries polls, returns true
\* at the first poll that lists the key and false when none does, always
\* returns a value, and waits strictly longer before each successive poll
\* than before the previous one.
C26_VerifyPolling ==
    /\ vfy.pc \in {"idle", "poll", "ret"}
    /\ Len(vfy.resps) <= vfy.max_retries
    /\ \A k \in 1..(Len(vfy.resps) - 1) : vfy.resps[k] # "has_key"
    /\ vfy.pc = "ret" =>
          IF vfy.ret THEN vfy.resps[Len(vfy.resps)] = "has_key"
          ELSE /\ Len(vfy.resps) = vfy.max_retries
               /\ \A k \in 1..Len(vfy.resps) : vfy.resps[k] # "has_key"
    /\ \A k \in 2..Len(vfy.waits) : vfy.waits[k] > vfy.waits[k - 1]

\* C27: a call of archive_article puts its task on the queue (or tries to)
\* only after upload_file succeeded, and verification too when enabled, and
\* only with a non-empty title; it does so for a URL the Ledger did not
\* hold, once, and the queued task is that of the call; a call that ends on
\* a Ledger hit, a 404 or redirect, a failed fetch or a failed upload has
\* queued nothing.
C27_EnqueueOnlyAfterUpload ==
    /\ (Call.pc = "enqueue" \/ Call.enq # "no") =>
          /\ Confirmed(Call)
          /\ Truthy(Call.title)
          /\ conf.has_queue
          /\ ~Recorded
    /\ Call.pc = "enqueue" => Call.enq = "no"
    /\ (Call.pc = "record" /\ Call.enq = "queued") =>
          (mq # <<>> => mq[Len(mq)] = TaskOf(Call))
    /\ \A j, k \in 1..Len(mq) : j # k => mq[j].key # mq[k].key
    /\ (Call.pc = "ret" /\ (Recorded \/ Call.content.empty \/ ~Call.success)) => Call.enq = "no"

\* a call has returned after a verified upload whose task was queued
C27_Witness ==
    /\ Call.pc = "ret"
    /\ Call.enq = "queued"
    /\ Call.verified
    /\ mq # <<>>
    /\ mq[Len(mq)] = TaskOf(Call)

\* C28: when the patch request is answered 400 and attempts remain,
\* update_file_metadata sends the request again: after a 400 the call is
\* about to make another request unless max_retries + 1 have been made.
C28_RetryOn400 ==
    (meta.requests > 0 /\ ~meta.last_exc /\ meta.last_status = 400) =>
        \/ meta.pc = "request"
        \/ meta.requests = META_MAX_RETRIES + 1

\* C29: catchup_metadata queues a task only for a listed file other than
\* metadata.txt and index.html that has a non-empty title in the Ledger;
\* on a full queue it drops the task and goes on, so that when it returns
\* every bucket has been scanned; it returns the number of tasks the queue
\* accepted.
C29_CatchupScan ==
    /\ \A k \in 1..Len(cat.puts) :
          /\ cat.puts[k].key \notin {S_METADATA_TXT, S_INDEX_HTML, <<>>}
          /\ Truthy(cat.puts[k].title)
          /\ \E r \in uploads : r.ia_key = cat.puts[k].key /\ r.title = cat.puts[k].title
    /\ cat.queued_count = Len(cat.puts)
    /\ cat.pc = "ret" =>
          /\ cat.ret = Len(cat.puts)
          /\ cat.bi > Len(cat.buckets)

\* C30: when archive_article(url) returns True, is_archived(url) holds at
\* that moment; when it returns a negative result (False, or None after a
\* failed upload) for a URL the Ledger did not hold before the call,
\* is_archived(url) is still false.
C30_SuccessImpliesRecorded ==
    /\ (Call.pc = "ret" /\ Call.result = "True") => IsArchived(uploads, Call.url)
    /\ (Call.pc = "ret" /\ Call.result \in {"False", None} /\ ~Recorded) =>
          ~IsArchived(uploads, Call.url)

\* a call on a URL the Ledger did not hold returned True after its write
C30_Witness ==
    /\ Call.pc = "ret"
    /\ Call.result = "True"
    /\ ~Recorded
    /\ Call.wrote

\* C31: in every run the sentinel is eventually enqueued and the consumer
\* thread, started before the date loop, eventually exits, also when the
\* Ledger snapshot read or a worker raises an error during the date loop.
C31_ConsumerTerminates ==
    /\ <>(orch.pc \in {"qjoin", "tjoin", "index", "done"})
    /\ <>(cons.pc = "exited")

\* key is listed under date n in articles_by_month
ListedUnder(abm, n, key) ==
    \E b \in 1..Len(abm) :
        /\ abm[b].k = BucketId(n)
        /\ \E d \in 1..Len(abm[b].v) :
              /\ abm[b].v[d].k = DateStr(n)
              /\ \E j \in 1..Len(abm[b].v[d].v) : abm[b].v[d].v[j] = key

\* C32: at the end of a run, for every processed date, every URL of the date
\* that has a row in the Ledger, those archived by an earlier run included,
\* has its key listed under the date in the articles_by_month from which
\* the index.html of the bucket is generated.
C32_IndexCompleteAcrossRuns ==
    orch.pc \in {"index", "done"} =>
        \A k \in 1..Len(orch.processed) : \A r \in uploads :
            Contains(r.url, S_NEWS \o DateStr(orch.processed[k]) \o S_SLASH) =>
                ListedUnder(orch.articles_by_month, orch.processed[k], r.ia_key)

====
